---------------------------- MODULE Spec2Model ----------------------------
(***************************************************************************)
(* A model of dolfin's IntersectionConstruction (geometry): the dispatch   *)
(* intersection(p, q, gdim) and the intersectors it delegates to.          *)
(*                                                                         *)
(* Arithmetic is exact: a real number is a reduced fraction <<n, d>> with  *)
(* d > 0, and a Point is a triple of such numbers (dolfin's Point always   *)
(* carries x, y and z; unused coordinates are 0).  Input coordinates are   *)
(* integers in units of a grid spacing h.  A call is made either with      *)
(* h = 1 (tiny = FALSE) or with the spacing h for which                    *)
(* DOLFIN_EPS_LARGE/h^2 = EpsOverH2 (tiny = TRUE, h about 3e-8), where the *)
(* stability guard of the 2D segment-segment intersector,                  *)
(* den^2 < DOLFIN_EPS_LARGE*|num|, is within reach of lattice segments:    *)
(* with den = h^2*D and num = h^2*N it reads D^2 < EpsOverH2*|N|.  Every   *)
(* other computation is invariant under scaling, so points are kept in     *)
(* grid units throughout.                                                  *)
(***************************************************************************)
EXTENDS Integers, Sequences, FiniteSets, TLC

VARIABLES pc, p, q, gdim, tiny, ret, history

vars == <<pc, p, q, gdim, tiny, ret, history>>

----------------------------------------------------------------------------
(* Bounds of the model *)

\* largest coordinate of a 1D input vertex
Grid1 == 4
\* largest coordinate of a 2D input vertex
Grid2 == 2
\* largest coordinate of a 3D input vertex
Grid3 == 2
\* largest number of vertices of a simplex handed to the dispatch
MaxVerts == 5
\* largest geometric dimension handed to the dispatch
MaxGdim == 4
\* longest list handed to _unique_points on its own
MaxList == 4
\* calls a caller makes one after the other
MaxCalls == 3
\* DOLFIN_EPS_LARGE/h^2 at the tiny grid spacing h
EpsOverH2 == 10

\* DOLFIN_EPS_LARGE = 1.0e-14 = 1/(EpsRoot*EpsRoot)
EpsRoot == 10000000

----------------------------------------------------------------------------
(* Exact rational arithmetic (the doubles of the source, without rounding) *)

Abs(n) == IF n < 0 THEN -n ELSE n

Sgn(n) == IF n < 0 THEN -1 ELSE IF n > 0 THEN 1 ELSE 0

RECURSIVE GCD(_, _)
GCD(a, b) == IF b = 0 THEN a ELSE GCD(b, a % b)

\* the reduced fraction n/d; a zero denominator gives inf (<<1,0>>, <<-1,0>>)
\* or nan (<<0,0>>) as IEEE division does
Rat(n, d) ==
  IF d = 0 THEN <<Sgn(n), 0>>
  ELSE LET g == GCD(Abs(n), Abs(d))
           s == Sgn(d)
       IN  <<(s * n) \div g, (s * d) \div g>>

RInt(k) == <<k, 1>>
RZero == <<0, 1>>
RAdd(a, b) == Rat(a[1] * b[2] + b[1] * a[2], a[2] * b[2])
RSub(a, b) == Rat(a[1] * b[2] - b[1] * a[2], a[2] * b[2])
RMul(a, b) == Rat(a[1] * b[1], a[2] * b[2])
RDiv(a, b) == Rat(a[1] * b[2], a[2] * b[1])
RAbs(a) == <<Abs(a[1]), a[2]>>
RLt(a, b) == a[1] * b[2] < b[1] * a[2]
RLe(a, b) == a[1] * b[2] <= b[1] * a[2]
RSgn(a) == Sgn(a[1])
RMax(a, b) == IF RLt(a, b) THEN b ELSE a
RMin(a, b) == IF RLt(b, a) THEN b ELSE a

\* x < y * DOLFIN_EPS_LARGE for x, y >= 0, without forming EpsRoot^2
LessEps(x, y) ==
  LET l == x[1] * y[2]
      r == y[1] * x[2]
  IN  IF r = 0 THEN FALSE ELSE l <= ((r - 1) \div EpsRoot) \div EpsRoot

----------------------------------------------------------------------------
(* Point: dolfin::Point, three coordinates, exact equality *)

Point1(x) == <<x, RZero, RZero>>
Point2(x, y) == <<x, y, RZero>>
Point3(x, y, z) == <<x, y, z>>
IPoint(x, y, z) == <<RInt(x), RInt(y), RInt(z)>>

PAdd(a, b) == <<RAdd(a[1], b[1]), RAdd(a[2], b[2]), RAdd(a[3], b[3])>>
PSub(a, b) == <<RSub(a[1], b[1]), RSub(a[2], b[2]), RSub(a[3], b[3])>>
PScale(c, a) == <<RMul(c, a[1]), RMul(c, a[2]), RMul(c, a[3])>>
PX(a) == a[1]
PY(a) == a[2]
PZ(a) == a[3]
\* a[i] of the source, i = 0, 1, 2
Coord(a, i) == a[i + 1]

squared_distance(a, b) ==
  LET d == PSub(a, b)
  IN  RAdd(RAdd(RMul(d[1], d[1]), RMul(d[2], d[2])), RMul(d[3], d[3]))

SetOf(s) == {s[i] : i \in 1..Len(s)}

NoDuplicates(s) == \A i, j \in 1..Len(s) : i # j => s[i] # s[j]

----------------------------------------------------------------------------
(* Collaborators of the intersectors: predicates, geometry tools and the   *)
(* point-list helpers of the class header                                  *)

\* sign of x relative to the closed interval [min(a,b), max(a,b)]
orient1d(a, b, x) ==
  IF RLt(RMax(a, b), x) THEN RInt(1)
  ELSE IF RLt(x, RMin(a, b)) THEN RInt(-1)
  ELSE RZero

\* twice the signed area of the triangle (a, b, c)
orient2d(a, b, c) ==
  RSub(RMul(RSub(PX(a), PX(c)), RSub(PY(b), PY(c))),
       RMul(RSub(PY(a), PY(c)), RSub(PX(b), PX(c))))

\* index (0 or 1) of the largest component of v, x on a tie
major_axis_2d(v) == IF RLe(RAbs(PY(v)), RAbs(PX(v))) THEN 0 ELSE 1

project_to_axis_2d(a, axis) == Coord(a, axis)

collides_segment_point_1d(a, b, x) ==
  RLe(RMin(a, b), x) /\ RLe(x, RMax(a, b))

\* points.insert(points.end(), more.begin(), more.end())
add(points, more) == points \o more

\* st = [points, p0i, p1i, q0i, q1i]; a == b is recorded in the flags named
\* ai and bi, and a is appended unless one of the two was matched before
add_if_equal(st, a, b, ai, bi) ==
  IF a = b
  THEN [st EXCEPT !.points = IF ~st[ai] /\ ~st[bi] THEN Append(@, a) ELSE @,
                  ![ai] = TRUE,
                  ![bi] = TRUE]
  ELSE st

\* push_back under a condition
PushIf(points, cond, a) == IF cond THEN Append(points, a) ELSE points

NoFlags == [points |-> <<>>, p0i |-> FALSE, p1i |-> FALSE,
            q0i |-> FALSE, q1i |-> FALSE]

\* den^2 < DOLFIN_EPS_LARGE*|num|, den and num in grid units
StabilityGuard(den, num) ==
  IF tiny
  THEN RLt(RMul(den, den), RMul(RInt(EpsOverH2), RAbs(num)))
  ELSE LessEps(RMul(den, den), RAbs(num))

\* std::sort of a short array by a key: insertion, equal keys keep their order
RECURSIVE InsertByKey(_, _, _)
InsertByKey(sorted, a, axis) ==
  IF sorted = <<>> THEN <<a>>
  ELSE IF RLt(Coord(a, axis), Coord(sorted[Len(sorted)], axis))
       THEN Append(InsertByKey(SubSeq(sorted, 1, Len(sorted) - 1), a, axis),
                   sorted[Len(sorted)])
       ELSE Append(sorted, a)

RECURSIVE SortByAxis(_, _)
SortByAxis(s, axis) ==
  IF s = <<>> THEN <<>>
  ELSE InsertByKey(SortByAxis(SubSeq(s, 1, Len(s) - 1), axis), s[Len(s)], axis)

----------------------------------------------------------------------------
(* _unique_points *)

\* a mutant of unique_points: the inner loop starts at j = i + 2
unique_points_skip(input_points) ==
  LET Kept(i) == \A j \in (i + 2)..Len(input_points) :
                    input_points[i] # input_points[j]
      kept == {i \in 1..Len(input_points) : Kept(i)}
      Nth(k) == CHOOSE i \in kept : Cardinality({j \in kept : j < i}) = k - 1
  IN  [k \in 1..Cardinality(kept) |-> input_points[Nth(k)]]

\* a mutant of unique_points: the inner loop looks at the points before i,
\* so that the first occurrence of a value is kept
unique_points_first(input_points) ==
  LET Kept(i) == \A j \in 1..(i - 1) : input_points[i] # input_points[j]
      kept == {i \in 1..Len(input_points) : Kept(i)}
      Nth(k) == CHOOSE i \in kept : Cardinality({j \in kept : j < i}) = k - 1
  IN  [k \in 1..Cardinality(kept) |-> input_points[Nth(k)]]

\* keeps input_points[i] unless an equal point follows it
unique_points(input_points) ==
  LET Kept(i) == \A j \in (i + 1)..Len(input_points) :
                    input_points[i] # input_points[j]
      kept == {i \in 1..Len(input_points) : Kept(i)}
      Nth(k) == CHOOSE i \in kept : Cardinality({j \in kept : j < i}) = k - 1
  IN  [k \in 1..Cardinality(kept) |-> input_points[Nth(k)]]

----------------------------------------------------------------------------
(* Segment-segment intersectors *)

\* a mutant of intersection_segment_segment_1d: the no-collision test
\* is po >= 0 or qo > 0
intersection_segment_segment_1d_ge(p0, p1, q0, q1) ==
  LET p0o == orient1d(q0, q1, p0)
      p1o == orient1d(q0, q1, p1)
      q0o == orient1d(p0, p1, q0)
      q1o == orient1d(p0, p1, q1)
      po == RMul(p0o, p1o)
      qo == RMul(q0o, q1o)
      e1 == add_if_equal(NoFlags, p0, q0, "p0i", "q0i")
      e2 == add_if_equal(e1, p0, q1, "p0i", "q1i")
      e3 == add_if_equal(e2, p1, q0, "p1i", "q0i")
      e4 == add_if_equal(e3, p1, q1, "p1i", "q1i")
      m1 == PushIf(e4.points, ~e4.p0i /\ p0o = RZero, p0)
      m2 == PushIf(m1, ~e4.p1i /\ p1o = RZero, p1)
      m3 == PushIf(m2, ~e4.q0i /\ q0o = RZero, q0)
      m4 == PushIf(m3, ~e4.q1i /\ q1o = RZero, q1)
  IN  IF RSgn(po) >= 0 \/ RSgn(qo) > 0 THEN <<>> ELSE m4

\* a mutant of intersection_segment_segment_1d: the interior tests do not
\* consult the indicators
intersection_segment_segment_1d_unflagged(p0, p1, q0, q1) ==
  LET p0o == orient1d(q0, q1, p0)
      p1o == orient1d(q0, q1, p1)
      q0o == orient1d(p0, p1, q0)
      q1o == orient1d(p0, p1, q1)
      po == RMul(p0o, p1o)
      qo == RMul(q0o, q1o)
      e1 == add_if_equal(NoFlags, p0, q0, "p0i", "q0i")
      e2 == add_if_equal(e1, p0, q1, "p0i", "q1i")
      e3 == add_if_equal(e2, p1, q0, "p1i", "q0i")
      e4 == add_if_equal(e3, p1, q1, "p1i", "q1i")
      m1 == PushIf(e4.points, p0o = RZero, p0)
      m2 == PushIf(m1, p1o = RZero, p1)
      m3 == PushIf(m2, q0o = RZero, q0)
      m4 == PushIf(m3, q1o = RZero, q1)
  IN  IF RSgn(po) > 0 \/ RSgn(qo) > 0 THEN <<>> ELSE m4

intersection_segment_segment_1d(p0, p1, q0, q1) ==
  LET p0o == orient1d(q0, q1, p0)
      p1o == orient1d(q0, q1, p1)
      q0o == orient1d(p0, p1, q0)
      q1o == orient1d(p0, p1, q1)
      po == RMul(p0o, p1o)
      qo == RMul(q0o, q1o)
      e1 == add_if_equal(NoFlags, p0, q0, "p0i", "q0i")
      e2 == add_if_equal(e1, p0, q1, "p0i", "q1i")
      e3 == add_if_equal(e2, p1, q0, "p1i", "q0i")
      e4 == add_if_equal(e3, p1, q1, "p1i", "q1i")
      m1 == PushIf(e4.points, ~e4.p0i /\ p0o = RZero, p0)
      m2 == PushIf(m1, ~e4.p1i /\ p1o = RZero, p1)
      m3 == PushIf(m2, ~e4.q0i /\ q0o = RZero, q0)
      m4 == PushIf(m3, ~e4.q1i /\ q1o = RZero, q1)
  IN  IF RSgn(po) > 0 \/ RSgn(qo) > 0 THEN <<>> ELSE m4

\* a mutant of EndPointCollisions2d: the end points of the first segment are
\* not tested against the second
EndPointCollisions2d_second_only(p0, p1, q0, q1) ==
  LET q0o == orient2d(p0, p1, q0)
      q1o == orient2d(p0, p1, q1)
      qo == RMul(q0o, q1o)
      e1 == add_if_equal(NoFlags, p0, q0, "p0i", "q0i")
      e2 == add_if_equal(e1, p0, q1, "p0i", "q1i")
      e3 == add_if_equal(e2, p1, q0, "p1i", "q0i")
      e4 == add_if_equal(e3, p1, q1, "p1i", "q1i")
      paxis == major_axis_2d(PSub(p1, p0))
      OnP(a) == collides_segment_point_1d(project_to_axis_2d(p0, paxis),
                                          project_to_axis_2d(p1, paxis),
                                          project_to_axis_2d(a, paxis))
      m3 == PushIf(e4.points, qo = RZero /\ ~e4.q0i /\ q0o = RZero /\ OnP(q0), q0)
      m4 == PushIf(m3, qo = RZero /\ ~e4.q1i /\ q1o = RZero /\ OnP(q1), q1)
  IN  m4

\* the branch po == 0 or qo == 0 of intersection_segment_segment_2d
EndPointCollisions2d(p0, p1, q0, q1) ==
  LET p0o == orient2d(q0, q1, p0)
      p1o == orient2d(q0, q1, p1)
      q0o == orient2d(p0, p1, q0)
      q1o == orient2d(p0, p1, q1)
      po == RMul(p0o, p1o)
      qo == RMul(q0o, q1o)
      e1 == add_if_equal(NoFlags, p0, q0, "p0i", "q0i")
      e2 == add_if_equal(e1, p0, q1, "p0i", "q1i")
      e3 == add_if_equal(e2, p1, q0, "p1i", "q0i")
      e4 == add_if_equal(e3, p1, q1, "p1i", "q1i")
      qaxis == major_axis_2d(PSub(q1, q0))
      paxis == major_axis_2d(PSub(p1, p0))
      OnQ(a) == collides_segment_point_1d(project_to_axis_2d(q0, qaxis),
                                          project_to_axis_2d(q1, qaxis),
                                          project_to_axis_2d(a, qaxis))
      OnP(a) == collides_segment_point_1d(project_to_axis_2d(p0, paxis),
                                          project_to_axis_2d(p1, paxis),
                                          project_to_axis_2d(a, paxis))
      m1 == PushIf(e4.points, po = RZero /\ ~e4.p0i /\ p0o = RZero /\ OnQ(p0), p0)
      m2 == PushIf(m1, po = RZero /\ ~e4.p1i /\ p1o = RZero /\ OnQ(p1), p1)
      m3 == PushIf(m2, qo = RZero /\ ~e4.q0i /\ q0o = RZero /\ OnP(q0), q0)
      m4 == PushIf(m3, qo = RZero /\ ~e4.q1i /\ q1o = RZero /\ OnP(q1), q1)
  IN  m4

\* does the main case base its formula on the first segment?
BaseIsP(p0, p1, q0, q1) ==
  RLt(squared_distance(p0, p1), squared_distance(q0, q1))

\* a mutant of MainNum: the orientation of the far end point of the base
MainNum_far(p0, p1, q0, q1) ==
  IF BaseIsP(p0, p1, q0, q1) THEN orient2d(q0, q1, p1) ELSE orient2d(p0, p1, q1)

\* num of the main case
MainNum(p0, p1, q0, q1) ==
  IF BaseIsP(p0, p1, q0, q1) THEN orient2d(q0, q1, p0) ELSE orient2d(p0, p1, q0)

\* a mutant of MainDen: the second branch keeps the den of the first
MainDen_copied(p0, p1, q0, q1) ==
  RSub(RMul(RSub(PX(p1), PX(p0)), RSub(PY(q1), PY(q0))),
       RMul(RSub(PY(p1), PY(p0)), RSub(PX(q1), PX(q0))))

\* den of the main case
MainDen(p0, p1, q0, q1) ==
  IF BaseIsP(p0, p1, q0, q1)
  THEN RSub(RMul(RSub(PX(p1), PX(p0)), RSub(PY(q1), PY(q0))),
            RMul(RSub(PY(p1), PY(p0)), RSub(PX(q1), PX(q0))))
  ELSE RSub(RMul(RSub(PX(q1), PX(q0)), RSub(PY(p1), PY(p0))),
            RMul(RSub(PY(q1), PY(q0)), RSub(PX(p1), PX(p0))))

\* x of the main case
MainPoint(p0, p1, q0, q1) ==
  LET t == RDiv(MainNum(p0, p1, q0, q1), MainDen(p0, p1, q0, q1))
  IN  IF BaseIsP(p0, p1, q0, q1)
      THEN PAdd(p0, PScale(t, PSub(p1, p0)))
      ELSE PAdd(q0, PScale(t, PSub(q1, q0)))

\* a mutant of CollinearMidpoint: the major axis is that of q1 - q0
CollinearMidpoint_q(p0, p1, q0, q1) ==
  LET major_axis == major_axis_2d(PSub(q1, q0))
      sorted == SortByAxis(<<p0, p1, q0, q1>>, major_axis)
  IN  PScale(Rat(1, 2), PAdd(sorted[2], sorted[3]))

\* the almost-collinear special case: midpoint of the two middle end points
\* along the major axis of p1 - p0
CollinearMidpoint(p0, p1, q0, q1) ==
  LET major_axis == major_axis_2d(PSub(p1, p0))
      sorted == SortByAxis(<<p0, p1, q0, q1>>, major_axis)
  IN  PScale(Rat(1, 2), PAdd(sorted[2], sorted[3]))

\* a mutant of intersection_segment_segment_2d: the no-collision test asks
\* for po > 0 and qo > 0
intersection_segment_segment_2d_and(p0, p1, q0, q1) ==
  LET po == RMul(orient2d(q0, q1, p0), orient2d(q0, q1, p1))
      qo == RMul(orient2d(p0, p1, q0), orient2d(p0, p1, q1))
  IN  IF RSgn(po) > 0 /\ RSgn(qo) > 0 THEN <<>>
      ELSE IF po = RZero \/ qo = RZero
           THEN EndPointCollisions2d(p0, p1, q0, q1)
      ELSE IF StabilityGuard(MainDen(p0, p1, q0, q1), MainNum(p0, p1, q0, q1))
           THEN <<CollinearMidpoint(p0, p1, q0, q1)>>
      ELSE unique_points(<<MainPoint(p0, p1, q0, q1)>>)

intersection_segment_segment_2d(p0, p1, q0, q1) ==
  LET po == RMul(orient2d(q0, q1, p0), orient2d(q0, q1, p1))
      qo == RMul(orient2d(p0, p1, q0), orient2d(p0, p1, q1))
  IN  IF RSgn(po) > 0 \/ RSgn(qo) > 0 THEN <<>>
      ELSE IF po = RZero \/ qo = RZero
           THEN EndPointCollisions2d(p0, p1, q0, q1)
      ELSE IF StabilityGuard(MainDen(p0, p1, q0, q1), MainNum(p0, p1, q0, q1))
           THEN <<CollinearMidpoint(p0, p1, q0, q1)>>
      ELSE unique_points(<<MainPoint(p0, p1, q0, q1)>>)

----------------------------------------------------------------------------
(* Predicates and vector tools in three dimensions *)

Dot(a, b) == RAdd(RAdd(RMul(a[1], b[1]), RMul(a[2], b[2])), RMul(a[3], b[3]))

\* a.cross(b)
Cross(a, b) ==
  <<RSub(RMul(a[2], b[3]), RMul(a[3], b[2])),
    RSub(RMul(a[3], b[1]), RMul(a[1], b[3])),
    RSub(RMul(a[1], b[2]), RMul(a[2], b[1]))>>

squared_norm(a) == Dot(a, a)

\* the determinant of (a - d, b - d, c - d)
orient3d(a, b, c, d) == Dot(PSub(a, d), Cross(PSub(b, d), PSub(c, d)))

\* x lies on the closed segment (a, b), in any dimension
collides_segment_point_3d(a, b, x) ==
  /\ Cross(PSub(b, a), PSub(x, a)) = <<RZero, RZero, RZero>>
  /\ RLe(squared_distance(x, a), squared_distance(a, b))
  /\ RLe(squared_distance(x, b), squared_distance(a, b))

collides_segment_point_2d(a, b, x) == collides_segment_point_3d(a, b, x)

\* x lies in the closed triangle (p0, p1, p2) of the plane
collides_triangle_point_2d(p0, p1, p2, x) ==
  LET ref == RSgn(orient2d(p0, p1, p2))
      s0 == RSgn(orient2d(p1, p2, x))
      s1 == RSgn(orient2d(p2, p0, x))
      s2 == RSgn(orient2d(p0, p1, x))
  IN  IF ref > 0 THEN s0 >= 0 /\ s1 >= 0 /\ s2 >= 0
      ELSE IF ref < 0 THEN s0 <= 0 /\ s1 <= 0 /\ s2 <= 0
      ELSE \/ collides_segment_point_2d(p0, p1, x)
           \/ collides_segment_point_2d(p1, p2, x)
           \/ collides_segment_point_2d(p2, p0, x)

\* x lies in the closed triangle (p0, p1, p2) of space
collides_triangle_point_3d(p0, p1, p2, x) ==
  LET n == Cross(PSub(p1, p0), PSub(p2, p0))
      Inside(a, b) == RSgn(Dot(n, Cross(PSub(b, a), PSub(x, a)))) >= 0
  IN  \/ x = p0 \/ x = p1 \/ x = p2
      \/ /\ orient3d(p0, p1, p2, x) = RZero
         /\ IF n = <<RZero, RZero, RZero>>
            THEN \/ collides_segment_point_3d(p0, p1, x)
                 \/ collides_segment_point_3d(p1, p2, x)
                 \/ collides_segment_point_3d(p2, p0, x)
            ELSE Inside(p0, p1) /\ Inside(p1, p2) /\ Inside(p2, p0)

\* x lies in the closed tetrahedron (p0, p1, p2, p3), which is not flat
collides_tetrahedron_point_3d(p0, p1, p2, p3, x) ==
  LET ref == RSgn(orient3d(p0, p1, p2, p3))
      s0 == RSgn(orient3d(p0, p1, p2, x))
      s1 == RSgn(orient3d(p0, p3, p1, x))
      s2 == RSgn(orient3d(p0, p2, p3, x))
      s3 == RSgn(orient3d(p1, p3, p2, x))
  IN  IF ref > 0 THEN s0 >= 0 /\ s1 >= 0 /\ s2 >= 0 /\ s3 >= 0
      ELSE s0 <= 0 /\ s1 <= 0 /\ s2 <= 0 /\ s3 <= 0

\* the parameter along (a0, a1) at which its line meets the line of (b0, b1),
\* for coplanar lines that are not parallel
LineParam(a0, a1, b0, b1) ==
  LET w == PSub(a1, a0)
      v == PSub(b1, b0)
      wv == Cross(w, v)
  IN  RDiv(Dot(Cross(PSub(b0, a0), v), wv), squared_norm(wv))

\* the closed segments (p0, p1) and (q0, q1) have a common point
collides_segment_segment_3d(p0, p1, q0, q1) ==
  \/ collides_segment_point_3d(q0, q1, p0)
  \/ collides_segment_point_3d(q0, q1, p1)
  \/ collides_segment_point_3d(p0, p1, q0)
  \/ collides_segment_point_3d(p0, p1, q1)
  \/ /\ orient3d(p0, p1, q0, q1) = RZero
     /\ squared_norm(Cross(PSub(p1, p0), PSub(q1, q0))) # RZero
     /\ LET s == LineParam(p0, p1, q0, q1)
            t == LineParam(q0, q1, p0, p1)
        IN  RLe(RZero, s) /\ RLe(s, RInt(1)) /\ RLe(RZero, t) /\ RLe(t, RInt(1))

----------------------------------------------------------------------------
(* Low-level point intersectors *)

intersection_point_point_1d(p0, q0) == IF p0 = q0 THEN <<p0>> ELSE <<>>

\* a mutant of intersection_point_point_2d: z is compared as well
intersection_point_point_2d_xyz(p0, q0) ==
  IF PX(p0) = PX(q0) /\ PY(p0) = PY(q0) /\ PZ(p0) = PZ(q0)
  THEN <<p0>> ELSE <<>>

intersection_point_point_2d(p0, q0) ==
  IF PX(p0) = PX(q0) /\ PY(p0) = PY(q0) THEN <<p0>> ELSE <<>>

intersection_point_point_3d(p0, q0) ==
  IF PX(p0) = PX(q0) /\ PY(p0) = PY(q0) /\ PZ(p0) = PZ(q0)
  THEN <<p0>> ELSE <<>>

intersection_segment_point_1d(p0, p1, q0) ==
  IF collides_segment_point_1d(p0, p1, q0) THEN <<q0>> ELSE <<>>

intersection_segment_point_2d(p0, p1, q0) ==
  IF collides_segment_point_2d(p0, p1, q0) THEN <<q0>> ELSE <<>>

intersection_segment_point_3d(p0, p1, q0) ==
  IF collides_segment_point_3d(p0, p1, q0) THEN <<q0>> ELSE <<>>

intersection_triangle_point_2d(p0, p1, p2, q0) ==
  IF collides_triangle_point_2d(p0, p1, p2, q0) THEN <<q0>> ELSE <<>>

intersection_triangle_point_3d(p0, p1, p2, q0) ==
  IF collides_triangle_point_3d(p0, p1, p2, q0) THEN <<q0>> ELSE <<>>

intersection_tetrahedron_point_3d(p0, p1, p2, p3, q0) ==
  IF collides_tetrahedron_point_3d(p0, p1, p2, p3, q0) THEN <<q0>> ELSE <<>>

----------------------------------------------------------------------------
(* Segment-segment in 3D and triangle-segment in 3D *)

\* a mutant of ShewchukPoint: the branch den != 0 adds no point either
ShewchukPoint_none(p0, p1, q0, q1) == <<>>

\* a mutant of ShewchukPoint: the fraction num / den is taken from p0
\* towards p1 in the plain branch as well
ShewchukPoint_from_p0(p0, p1, q0, q1) ==
  LET w == PSub(p0, p1)
      v == PSub(q0, q1)
      u == PSub(p1, q1)
      wv == Cross(w, v)
      vu == Cross(v, u)
      den == squared_norm(wv)
      num == Dot(wv, vu)
      u_swapped == PSub(p0, q1)
      vu_swapped == Cross(v, u_swapped)
      num_swapped == RSub(RZero, Dot(wv, vu_swapped))
  IN  IF den = RZero THEN <<>>
      ELSE IF LessEps(RAbs(RSub(RDiv(num, den), RInt(1))), RInt(1))
           THEN <<PAdd(p0, PScale(RDiv(num_swapped, den), PSub(p1, p0)))>>
      ELSE <<PAdd(p0, PScale(RDiv(num, den), PSub(p1, p0)))>>

\* the determinant formula, reached when no end point lies on the other segment
ShewchukPoint(p0, p1, q0, q1) ==
  LET w == PSub(p0, p1)
      v == PSub(q0, q1)
      u == PSub(p1, q1)
      wv == Cross(w, v)
      vu == Cross(v, u)
      den == squared_norm(wv)
      num == Dot(wv, vu)
      u_swapped == PSub(p0, q1)
      vu_swapped == Cross(v, u_swapped)
      num_swapped == RSub(RZero, Dot(wv, vu_swapped))
  IN  IF den = RZero THEN <<>>
      ELSE IF LessEps(RAbs(RSub(RDiv(num, den), RInt(1))), RInt(1))
           THEN <<PAdd(p0, PScale(RDiv(num_swapped, den), PSub(p1, p0)))>>
      ELSE <<PAdd(p1, PScale(RDiv(num, den), PSub(p0, p1)))>>

\* the four end point tests, each end point found on the other segment
\* appended in the order p0, p1, q0, q1
EndPointCollisions3d(p0, p1, q0, q1) ==
  LET e1 == PushIf(<<>>, collides_segment_point_3d(q0, q1, p0), p0)
      e2 == PushIf(e1, collides_segment_point_3d(q0, q1, p1), p1)
      e3 == PushIf(e2, collides_segment_point_3d(p0, p1, q0), q0)
      e4 == PushIf(e3, collides_segment_point_3d(p0, p1, q1), q1)
  IN  e4

\* a mutant of intersection_segment_segment_3d: two or more end points found
\* are returned as collected
intersection_segment_segment_3d_raw(p0, p1, q0, q1) ==
  LET e4 == EndPointCollisions3d(p0, p1, q0, q1)
  IN  IF ~collides_segment_segment_3d(p0, p1, q0, q1) THEN <<>>
      ELSE IF p0 = p1 /\ collides_segment_point_3d(q0, q1, p0) THEN <<p0>>
      ELSE IF q0 = q1 /\ collides_segment_point_3d(p0, p1, q0) THEN <<q0>>
      ELSE IF Len(e4) = 1 THEN e4
      ELSE IF Len(e4) > 1 THEN e4
      ELSE unique_points(ShewchukPoint(p0, p1, q0, q1))

intersection_segment_segment_3d(p0, p1, q0, q1) ==
  LET e4 == EndPointCollisions3d(p0, p1, q0, q1)
  IN  IF ~collides_segment_segment_3d(p0, p1, q0, q1) THEN <<>>
      ELSE IF p0 = p1 /\ collides_segment_point_3d(q0, q1, p0) THEN <<p0>>
      ELSE IF q0 = q1 /\ collides_segment_point_3d(p0, p1, q0) THEN <<q0>>
      ELSE IF Len(e4) = 1 THEN e4
      ELSE IF Len(e4) > 1 THEN unique_points(e4)
      ELSE unique_points(ShewchukPoint(p0, p1, q0, q1))

\* everything after the test qo > 0 is disabled in the source: no point is
\* ever added
intersection_triangle_segment_3d(p0, p1, p2, q0, q1) ==
  LET q0o == orient3d(p0, p1, p2, q0)
      q1o == orient3d(p0, p1, p2, q1)
      qo == RMul(q0o, q1o)
  IN  IF RSgn(qo) > 0 THEN <<>> ELSE <<>>

----------------------------------------------------------------------------
(* Composite intersectors: the explicit lists of delegated calls *)

Call(fn, args) == [fn |-> fn, args |-> args]

\* the result of one delegated call
ApplyCall(c) ==
  LET a == c.args
  IN  CASE c.fn = "intersection_triangle_point_2d" ->
             intersection_triangle_point_2d(a[1], a[2], a[3], a[4])
        [] c.fn = "intersection_triangle_point_3d" ->
             intersection_triangle_point_3d(a[1], a[2], a[3], a[4])
        [] c.fn = "intersection_tetrahedron_point_3d" ->
             intersection_tetrahedron_point_3d(a[1], a[2], a[3], a[4], a[5])
        [] c.fn = "intersection_segment_segment_2d" ->
             intersection_segment_segment_2d(a[1], a[2], a[3], a[4])
        [] c.fn = "intersection_triangle_segment_3d" ->
             intersection_triangle_segment_3d(a[1], a[2], a[3], a[4], a[5])

\* points after _add of every call of the list
RECURSIVE AccumulateRange(_, _, _)
AccumulateRange(calls, lo, hi) ==
  IF lo > hi THEN <<>>
  ELSE IF lo = hi THEN add(<<>>, ApplyCall(calls[lo]))
  ELSE LET mid == (lo + hi) \div 2
       IN  add(AccumulateRange(calls, lo, mid), AccumulateRange(calls, mid + 1, hi))

Accumulate(calls) == AccumulateRange(calls, 1, Len(calls))

\* the _add(points, ...) calls of intersection_triangle_segment_2d, in order
Calls_triangle_segment_2d(p0, p1, p2, q0, q1) ==
  <<
     Call("intersection_triangle_point_2d", <<p0, p1, p2, q0>>),
     Call("intersection_triangle_point_2d", <<p0, p1, p2, q1>>),
     Call("intersection_segment_segment_2d", <<p0, p1, q0, q1>>),
     Call("intersection_segment_segment_2d", <<p0, p2, q0, q1>>),
     Call("intersection_segment_segment_2d", <<p1, p2, q0, q1>>)
  >>

\* the _add(points, ...) calls of intersection_tetrahedron_segment_3d, in order
Calls_tetrahedron_segment_3d(p0, p1, p2, p3, q0, q1) ==
  <<
     Call("intersection_tetrahedron_point_3d", <<p0, p1, p2, p3, q0>>),
     Call("intersection_tetrahedron_point_3d", <<p0, p1, p2, p3, q1>>),
     Call("intersection_triangle_segment_3d", <<p0, p1, p2, q0, q1>>),
     Call("intersection_triangle_segment_3d", <<p0, p1, p3, q0, q1>>),
     Call("intersection_triangle_segment_3d", <<p0, p2, p3, q0, q1>>),
     Call("intersection_triangle_segment_3d", <<p1, p2, p3, q0, q1>>)
  >>

\* the _add(points, ...) calls of intersection_triangle_triangle_2d, in order
Calls_triangle_triangle_2d(p0, p1, p2, q0, q1, q2) ==
  <<
     Call("intersection_triangle_point_2d", <<p0, p1, p2, q0>>),
     Call("intersection_triangle_point_2d", <<p0, p1, p2, q1>>),
     Call("intersection_triangle_point_2d", <<p0, p1, p2, q2>>),
     Call("intersection_triangle_point_2d", <<q0, q1, q2, p0>>),
     Call("intersection_triangle_point_2d", <<q0, q1, q2, p1>>),
     Call("intersection_triangle_point_2d", <<q0, q1, q2, p2>>),
     Call("intersection_segment_segment_2d", <<p0, p1, q0, q1>>),
     Call("intersection_segment_segment_2d", <<p0, p1, q0, q2>>),
     Call("intersection_segment_segment_2d", <<p0, p1, q1, q2>>),
     Call("intersection_segment_segment_2d", <<p0, p2, q0, q1>>),
     Call("intersection_segment_segment_2d", <<p0, p2, q0, q2>>),
     Call("intersection_segment_segment_2d", <<p0, p2, q1, q2>>),
     Call("intersection_segment_segment_2d", <<p1, p2, q0, q1>>),
     Call("intersection_segment_segment_2d", <<p1, p2, q0, q2>>),
     Call("intersection_segment_segment_2d", <<p1, p2, q1, q2>>)
  >>

\* a mutant of Calls_triangle_triangle_3d: the edge (q0, q2) is listed twice
\* and the edge (q1, q2) not at all
Calls_triangle_triangle_3d_repeated(p0, p1, p2, q0, q1, q2) ==
  <<
     Call("intersection_triangle_point_3d", <<p0, p1, p2, q0>>),
     Call("intersection_triangle_point_3d", <<p0, p1, p2, q1>>),
     Call("intersection_triangle_point_3d", <<p0, p1, p2, q2>>),
     Call("intersection_triangle_point_3d", <<q0, q1, q2, p0>>),
     Call("intersection_triangle_point_3d", <<q0, q1, q2, p1>>),
     Call("intersection_triangle_point_3d", <<q0, q1, q2, p2>>),
     Call("intersection_triangle_segment_3d", <<p0, p1, p2, q0, q1>>),
     Call("intersection_triangle_segment_3d", <<p0, p1, p2, q0, q2>>),
     Call("intersection_triangle_segment_3d", <<p0, p1, p2, q0, q2>>),
     Call("intersection_triangle_segment_3d", <<q0, q1, q2, p0, p1>>),
     Call("intersection_triangle_segment_3d", <<q0, q1, q2, p0, p2>>),
     Call("intersection_triangle_segment_3d", <<q0, q1, q2, p1, p2>>)
  >>

\* the _add(points, ...) calls of intersection_triangle_triangle_3d, in order
Calls_triangle_triangle_3d(p0, p1, p2, q0, q1, q2) ==
  <<
     Call("intersection_triangle_point_3d", <<p0, p1, p2, q0>>),
     Call("intersection_triangle_point_3d", <<p0, p1, p2, q1>>),
     Call("intersection_triangle_point_3d", <<p0, p1, p2, q2>>),
     Call("intersection_triangle_point_3d", <<q0, q1, q2, p0>>),
     Call("intersection_triangle_point_3d", <<q0, q1, q2, p1>>),
     Call("intersection_triangle_point_3d", <<q0, q1, q2, p2>>),
     Call("intersection_triangle_segment_3d", <<p0, p1, p2, q0, q1>>),
     Call("intersection_triangle_segment_3d", <<p0, p1, p2, q0, q2>>),
     Call("intersection_triangle_segment_3d", <<p0, p1, p2, q1, q2>>),
     Call("intersection_triangle_segment_3d", <<q0, q1, q2, p0, p1>>),
     Call("intersection_triangle_segment_3d", <<q0, q1, q2, p0, p2>>),
     Call("intersection_triangle_segment_3d", <<q0, q1, q2, p1, p2>>)
  >>

\* the _add(points, ...) calls of intersection_tetrahedron_triangle_3d, in order
Calls_tetrahedron_triangle_3d(p0, p1, p2, p3, q0, q1, q2) ==
  <<
     Call("intersection_tetrahedron_point_3d", <<p0, p1, p2, p3, q0>>),
     Call("intersection_tetrahedron_point_3d", <<p0, p1, p2, p3, q1>>),
     Call("intersection_tetrahedron_point_3d", <<p0, p1, p2, p3, q2>>),
     Call("intersection_triangle_point_3d", <<q0, q1, q2, p0>>),
     Call("intersection_triangle_point_3d", <<q0, q1, q2, p1>>),
     Call("intersection_triangle_point_3d", <<q0, q1, q2, p2>>),
     Call("intersection_triangle_point_3d", <<q0, q1, q2, p3>>),
     Call("intersection_triangle_segment_3d", <<p0, p1, p2, q0, q1>>),
     Call("intersection_triangle_segment_3d", <<p0, p1, p2, q0, q2>>),
     Call("intersection_triangle_segment_3d", <<p0, p1, p2, q1, q2>>),
     Call("intersection_triangle_segment_3d", <<p0, p1, p3, q0, q1>>),
     Call("intersection_triangle_segment_3d", <<p0, p1, p3, q0, q2>>),
     Call("intersection_triangle_segment_3d", <<p0, p1, p3, q1, q2>>),
     Call("intersection_triangle_segment_3d", <<p0, p2, p3, q0, q1>>),
     Call("intersection_triangle_segment_3d", <<p0, p2, p3, q0, q2>>),
     Call("intersection_triangle_segment_3d", <<p0, p2, p3, q1, q2>>),
     Call("intersection_triangle_segment_3d", <<p1, p2, p3, q0, q1>>),
     Call("intersection_triangle_segment_3d", <<p1, p2, p3, q0, q2>>),
     Call("intersection_triangle_segment_3d", <<p1, p2, p3, q1, q2>>),
     Call("intersection_triangle_segment_3d", <<q0, q1, q2, p0, p1>>),
     Call("intersection_triangle_segment_3d", <<q0, q1, q2, p0, p2>>),
     Call("intersection_triangle_segment_3d", <<q0, q1, q2, p0, p3>>),
     Call("intersection_triangle_segment_3d", <<q0, q1, q2, p1, p2>>),
     Call("intersection_triangle_segment_3d", <<q0, q1, q2, p1, p3>>),
     Call("intersection_triangle_segment_3d", <<q0, q1, q2, p2, p3>>)
  >>

\* the _add(points, ...) calls of intersection_tetrahedron_tetrahedron_3d, in order
Calls_tetrahedron_tetrahedron_3d(p0, p1, p2, p3, q0, q1, q2, q3) ==
  <<
     Call("intersection_tetrahedron_point_3d", <<p0, p1, p2, p3, q0>>),
     Call("intersection_tetrahedron_point_3d", <<p0, p1, p2, p3, q1>>),
     Call("intersection_tetrahedron_point_3d", <<p0, p1, p2, p3, q2>>),
     Call("intersection_tetrahedron_point_3d", <<p0, p1, p2, p3, q3>>),
     Call("intersection_tetrahedron_point_3d", <<q0, q1, q2, q3, p0>>),
     Call("intersection_tetrahedron_point_3d", <<q0, q1, q2, q3, p1>>),
     Call("intersection_tetrahedron_point_3d", <<q0, q1, q2, q3, p2>>),
     Call("intersection_tetrahedron_point_3d", <<q0, q1, q2, q3, p3>>),
     Call("intersection_triangle_segment_3d", <<p0, p1, p2, q0, q1>>),
     Call("intersection_triangle_segment_3d", <<p0, p1, p2, q0, q2>>),
     Call("intersection_triangle_segment_3d", <<p0, p1, p2, q0, q3>>),
     Call("intersection_triangle_segment_3d", <<p0, p1, p2, q1, q2>>),
     Call("intersection_triangle_segment_3d", <<p0, p1, p2, q1, q3>>),
     Call("intersection_triangle_segment_3d", <<p0, p1, p2, q2, q3>>),
     Call("intersection_triangle_segment_3d", <<p0, p1, p3, q0, q1>>),
     Call("intersection_triangle_segment_3d", <<p0, p1, p3, q0, q2>>),
     Call("intersection_triangle_segment_3d", <<p0, p1, p3, q0, q3>>),
     Call("intersection_triangle_segment_3d", <<p0, p1, p3, q1, q2>>),
     Call("intersection_triangle_segment_3d", <<p0, p1, p3, q1, q3>>),
     Call("intersection_triangle_segment_3d", <<p0, p1, p3, q2, q3>>),
     Call("intersection_triangle_segment_3d", <<p0, p2, p3, q0, q1>>),
     Call("intersection_triangle_segment_3d", <<p0, p2, p3, q0, q2>>),
     Call("intersection_triangle_segment_3d", <<p0, p2, p3, q0, q3>>),
     Call("intersection_triangle_segment_3d", <<p0, p2, p3, q1, q2>>),
     Call("intersection_triangle_segment_3d", <<p0, p2, p3, q1, q3>>),
     Call("intersection_triangle_segment_3d", <<p0, p2, p3, q2, q3>>),
     Call("intersection_triangle_segment_3d", <<p1, p2, p3, q0, q1>>),
     Call("intersection_triangle_segment_3d", <<p1, p2, p3, q0, q2>>),
     Call("intersection_triangle_segment_3d", <<p1, p2, p3, q0, q3>>),
     Call("intersection_triangle_segment_3d", <<p1, p2, p3, q1, q2>>),
     Call("intersection_triangle_segment_3d", <<p1, p2, p3, q1, q3>>),
     Call("intersection_triangle_segment_3d", <<p1, p2, p3, q2, q3>>),
     Call("intersection_triangle_segment_3d", <<q0, q1, q2, p0, p1>>),
     Call("intersection_triangle_segment_3d", <<q0, q1, q2, p0, p2>>),
     Call("intersection_triangle_segment_3d", <<q0, q1, q2, p0, p3>>),
     Call("intersection_triangle_segment_3d", <<q0, q1, q2, p1, p2>>),
     Call("intersection_triangle_segment_3d", <<q0, q1, q2, p1, p3>>),
     Call("intersection_triangle_segment_3d", <<q0, q1, q2, p2, p3>>),
     Call("intersection_triangle_segment_3d", <<q0, q1, q3, p0, p1>>),
     Call("intersection_triangle_segment_3d", <<q0, q1, q3, p0, p2>>),
     Call("intersection_triangle_segment_3d", <<q0, q1, q3, p0, p3>>),
     Call("intersection_triangle_segment_3d", <<q0, q1, q3, p1, p2>>),
     Call("intersection_triangle_segment_3d", <<q0, q1, q3, p1, p3>>),
     Call("intersection_triangle_segment_3d", <<q0, q1, q3, p2, p3>>),
     Call("intersection_triangle_segment_3d", <<q0, q2, q3, p0, p1>>),
     Call("intersection_triangle_segment_3d", <<q0, q2, q3, p0, p2>>),
     Call("intersection_triangle_segment_3d", <<q0, q2, q3, p0, p3>>),
     Call("intersection_triangle_segment_3d", <<q0, q2, q3, p1, p2>>),
     Call("intersection_triangle_segment_3d", <<q0, q2, q3, p1, p3>>),
     Call("intersection_triangle_segment_3d", <<q0, q2, q3, p2, p3>>),
     Call("intersection_triangle_segment_3d", <<q1, q2, q3, p0, p1>>),
     Call("intersection_triangle_segment_3d", <<q1, q2, q3, p0, p2>>),
     Call("intersection_triangle_segment_3d", <<q1, q2, q3, p0, p3>>),
     Call("intersection_triangle_segment_3d", <<q1, q2, q3, p1, p2>>),
     Call("intersection_triangle_segment_3d", <<q1, q2, q3, p1, p3>>),
     Call("intersection_triangle_segment_3d", <<q1, q2, q3, p2, p3>>)
  >>

intersection_triangle_segment_2d(p0, p1, p2, q0, q1) ==
  unique_points(Accumulate(Calls_triangle_segment_2d(p0, p1, p2, q0, q1)))

\* returns the accumulated points as they are
intersection_tetrahedron_segment_3d(p0, p1, p2, p3, q0, q1) ==
  Accumulate(Calls_tetrahedron_segment_3d(p0, p1, p2, p3, q0, q1))

intersection_triangle_triangle_2d(p0, p1, p2, q0, q1, q2) ==
  unique_points(Accumulate(Calls_triangle_triangle_2d(p0, p1, p2, q0, q1, q2)))

intersection_triangle_triangle_3d(p0, p1, p2, q0, q1, q2) ==
  unique_points(Accumulate(Calls_triangle_triangle_3d(p0, p1, p2, q0, q1, q2)))

intersection_tetrahedron_triangle_3d(p0, p1, p2, p3, q0, q1, q2) ==
  unique_points(Accumulate(
    Calls_tetrahedron_triangle_3d(p0, p1, p2, p3, q0, q1, q2)))

\* a mutant of intersection_tetrahedron_tetrahedron_3d: the accumulated list
\* is returned as it is
intersection_tetrahedron_tetrahedron_3d_raw(p0, p1, p2, p3, q0, q1, q2, q3) ==
  Accumulate(Calls_tetrahedron_tetrahedron_3d(p0, p1, p2, p3, q0, q1, q2, q3))

intersection_tetrahedron_tetrahedron_3d(p0, p1, p2, p3, q0, q1, q2, q3) ==
  unique_points(Accumulate(
    Calls_tetrahedron_tetrahedron_3d(p0, p1, p2, p3, q0, q1, q2, q3)))

----------------------------------------------------------------------------
(* The dispatch intersection(p, q, gdim) *)

\* Point(x) for every scalar of a 1D result
WrapPoints(xs) == [i \in 1..Len(xs) |-> Point1(xs[i])]

\* the result of the specialized intersector the dispatch has picked
ApplyTop(c) ==
  LET a == c.args
  IN  CASE c.fn = "intersection_segment_segment_1d" ->
             WrapPoints(intersection_segment_segment_1d(a[1], a[2], a[3], a[4]))
        [] c.fn = "intersection_segment_segment_2d" ->
             intersection_segment_segment_2d(a[1], a[2], a[3], a[4])
        [] c.fn = "intersection_segment_segment_3d" ->
             intersection_segment_segment_3d(a[1], a[2], a[3], a[4])
        [] c.fn = "intersection_triangle_segment_2d" ->
             intersection_triangle_segment_2d(a[1], a[2], a[3], a[4], a[5])
        [] c.fn = "intersection_triangle_segment_3d" ->
             intersection_triangle_segment_3d(a[1], a[2], a[3], a[4], a[5])
        [] c.fn = "intersection_triangle_triangle_2d" ->
             intersection_triangle_triangle_2d(a[1], a[2], a[3], a[4], a[5], a[6])
        [] c.fn = "intersection_triangle_triangle_3d" ->
             intersection_triangle_triangle_3d(a[1], a[2], a[3], a[4], a[5], a[6])
        [] c.fn = "intersection_tetrahedron_triangle_3d" ->
             intersection_tetrahedron_triangle_3d(a[1], a[2], a[3], a[4],
                                                  a[5], a[6], a[7])
        [] c.fn = "intersection_tetrahedron_tetrahedron_3d" ->
             intersection_tetrahedron_tetrahedron_3d(a[1], a[2], a[3], a[4],
                                                     a[5], a[6], a[7], a[8])
        [] OTHER -> <<>>

\* return <specialized intersector>(args): the call the dispatch has picked
Returned(fn, args) == [error |-> FALSE, callee |-> Call(fn, args)]

\* a mutant of NotImplemented: the unsupported case returns quietly
NotImplemented_silent(d0, d1, g) ==
  [error |-> FALSE, callee |-> Call("none", <<>>)]

\* dolfin_error(...): the call is aborted and no list is returned
NotImplemented(d0, d1, g) ==
  [error |-> TRUE, callee |-> Call("dolfin_error", <<d0, d1, g>>)]

\* a mutant of SegmentTriangle: the vertices are passed in argument order
SegmentTriangle_unswapped(pp, qq, g) ==
  IF g = 2
  THEN Returned("intersection_triangle_segment_2d",
                <<pp[1], pp[2], qq[1], qq[2], qq[3]>>)
  ELSE Returned("intersection_triangle_segment_3d",
                <<pp[1], pp[2], qq[1], qq[2], qq[3]>>)

\* the branch d0 == 1 and d1 == 2, for gdim 2 and 3
SegmentTriangle(pp, qq, g) ==
  IF g = 2
  THEN Returned("intersection_triangle_segment_2d",
                <<qq[1], qq[2], qq[3], pp[1], pp[2]>>)
  ELSE Returned("intersection_triangle_segment_3d",
                <<qq[1], qq[2], qq[3], pp[1], pp[2]>>)

\* the branch of the dispatch taken for (d0, d1, gdim)
PickImplementation(pp, qq, g) ==
  LET d0 == Len(pp) - 1
      d1 == Len(qq) - 1
  IN  IF d0 = 1 /\ d1 = 1 /\ g = 1
      THEN Returned("intersection_segment_segment_1d",
                    <<PX(pp[1]), PX(pp[2]), PX(qq[1]), PX(qq[2])>>)
      ELSE IF d0 = 1 /\ d1 = 1 /\ g = 2
      THEN Returned("intersection_segment_segment_2d",
                    <<pp[1], pp[2], qq[1], qq[2]>>)
      ELSE IF d0 = 1 /\ d1 = 1 /\ g = 3
      THEN Returned("intersection_segment_segment_3d",
                    <<pp[1], pp[2], qq[1], qq[2]>>)
      ELSE IF d0 = 1 /\ d1 = 2 /\ g \in {2, 3}
      THEN SegmentTriangle(pp, qq, g)
      ELSE IF d0 = 2 /\ d1 = 1 /\ g = 2
      THEN Returned("intersection_triangle_segment_2d",
                    <<pp[1], pp[2], pp[3], qq[1], qq[2]>>)
      ELSE IF d0 = 2 /\ d1 = 1 /\ g = 3
      THEN Returned("intersection_triangle_segment_3d",
                    <<pp[1], pp[2], pp[3], qq[1], qq[2]>>)
      ELSE IF d0 = 2 /\ d1 = 2 /\ g = 2
      THEN Returned("intersection_triangle_triangle_2d",
                    <<pp[1], pp[2], pp[3], qq[1], qq[2], qq[3]>>)
      ELSE IF d0 = 2 /\ d1 = 2 /\ g = 3
      THEN Returned("intersection_triangle_triangle_3d",
                    <<pp[1], pp[2], pp[3], qq[1], qq[2], qq[3]>>)
      ELSE IF d0 = 2 /\ d1 = 3 /\ g = 3
      THEN Returned("intersection_tetrahedron_triangle_3d",
                    <<qq[1], qq[2], qq[3], qq[4], pp[1], pp[2], pp[3]>>)
      ELSE IF d0 = 3 /\ d1 = 2 /\ g = 3
      THEN Returned("intersection_tetrahedron_triangle_3d",
                    <<pp[1], pp[2], pp[3], pp[4], qq[1], qq[2], qq[3]>>)
      ELSE IF d0 = 3 /\ d1 = 3 /\ g = 3
      THEN Returned("intersection_tetrahedron_tetrahedron_3d",
                    <<pp[1], pp[2], pp[3], pp[4], qq[1], qq[2], qq[3], qq[4]>>)
      ELSE NotImplemented(d0, d1, g)

\* intersection(p, q, gdim): the list of the call picked, none after an error
intersection(pp, qq, g) ==
  LET r == PickImplementation(pp, qq, g)
  IN  [error |-> r.error,
       callee |-> r.callee,
       points |-> IF r.error THEN <<>> ELSE ApplyTop(r.callee)]

----------------------------------------------------------------------------
(* The state machine: a caller holds the arguments of one call (pc =       *)
(* "ready") and then holds what the call gave back (pc = "done")           *)

NoResult == [error |-> FALSE, callee |-> Call("none", <<>>), points |-> <<>>]

Coords1 == 0..Grid1
Coords2 == 0..Grid2

\* segments of the line, all end points on the grid, zero length included
Init1D ==
  /\ pc = "ready"
  /\ gdim = 1
  /\ tiny = FALSE
  /\ ret = NoResult
  /\ history = <<>>
  /\ \E a, b, c, d \in Coords1 :
       /\ p = <<IPoint(a, 0, 0), IPoint(b, 0, 0)>>
       /\ q = <<IPoint(c, 0, 0), IPoint(d, 0, 0)>>

GridPoints2 == {IPoint(x, y, 0) : x, y \in Coords2}

\* segments of the plane, all end points on the grid, zero length included,
\* at grid spacing 1 or at the tiny spacing
Init2D ==
  /\ pc = "ready"
  /\ gdim = 2
  /\ tiny \in BOOLEAN
  /\ ret = NoResult
  /\ history = <<>>
  /\ \E a, b, c, d \in GridPoints2 :
       /\ p = <<a, b>>
       /\ q = <<c, d>>

\* segments of the strip 0 <= y <= 2, one unit longer than the grid, long
\* enough for collinear segments that lie apart
StripPoints == {IPoint(x, y, 0) : x \in 0..(Grid2 + 1), y \in 0..2}

Init2DStrip ==
  /\ pc = "ready"
  /\ gdim = 2
  /\ tiny \in BOOLEAN
  /\ ret = NoResult
  /\ history = <<>>
  /\ \E a, b, c, d \in StripPoints :
       /\ p = <<a, b>>
       /\ q = <<c, d>>

\* the vertices a triangle of the plane is drawn from
TrianglePoints == {IPoint(x, y, 0) : x, y \in 0..2}

\* triangles of the plane with their first vertex in the middle of the grid,
\* flat ones included, against the segments of the grid, zero length included
InitTriSeg2D ==
  /\ pc = "ready"
  /\ gdim = 2
  /\ tiny \in BOOLEAN
  /\ ret = NoResult
  /\ history = <<>>
  /\ \E a, b \in TrianglePoints, c, d \in GridPoints2 :
       /\ p = <<IPoint(1, 1, 0), a, b>>
       /\ q = <<c, d>>

\* segments of the line and segments of the plane
InitSegments == Init1D \/ Init2DStrip

Coords3 == 0..Grid3
GridPoints3 == {IPoint(x, y, z) : x, y, z \in Coords3}

IsFlat(a, b, c) == Cross(PSub(b, a), PSub(c, a)) = <<RZero, RZero, RZero>>

\* a triangle of the plane z = 1 against the triangles of space that have two
\* vertices anywhere on the grid and the third above or below a corner
Init3D ==
  /\ pc = "ready"
  /\ gdim = 3
  /\ tiny = FALSE
  /\ ret = NoResult
  /\ history = <<>>
  /\ p = <<IPoint(0, 0, 1), IPoint(2, 0, 1), IPoint(0, 2, 1)>>
  /\ \E a, b \in GridPoints3 :
       \E c \in {IPoint(2, 2, 0), IPoint(2, 2, 2)} :
         /\ ~IsFlat(a, b, c)
         /\ q = <<a, b, c>>

\* a triangle of the plane z = 1 against the segments of the grid
InitTriSeg3D ==
  /\ pc = "ready"
  /\ gdim = 3
  /\ tiny = FALSE
  /\ ret = NoResult
  /\ history = <<>>
  /\ p = <<IPoint(0, 0, 1), IPoint(2, 0, 1), IPoint(0, 2, 1)>>
  /\ \E a, b \in GridPoints3 : q = <<a, b>>

\* the corner shared by the cubes [0,1]^3 and [1,2]^3, the other corners of
\* the upper cube, and the corners of the lower cube next to and opposite to
\* the shared one
Corner == IPoint(1, 1, 1)
UpperCorners == {IPoint(x, y, z) : x, y, z \in 1..2} \ {Corner}
LowerCorners ==
  {IPoint(0, 1, 1), IPoint(1, 0, 1), IPoint(1, 1, 0), IPoint(0, 0, 0)}

\* a fixed order of the lattice points, to list each vertex set once
Before(a, b) ==
  9 * a[1][1] + 3 * a[2][1] + a[3][1] < 9 * b[1][1] + 3 * b[2][1] + b[3][1]

\* the sequence s with v put in at position i
InsertAt(s, i, v) == SubSeq(s, 1, i - 1) \o <<v>> \o SubSeq(s, i, Len(s))

\* a tetrahedron of the upper cube against one of the lower cube, both of
\* non-zero volume, with Corner a vertex of each at any position
InitTetTet ==
  /\ pc = "ready"
  /\ gdim = 3
  /\ tiny = FALSE
  /\ ret = NoResult
  /\ history = <<>>
  /\ \E a, b, c \in UpperCorners : \E d, e, f \in LowerCorners :
       \E i, j \in 1..4 :
         /\ Before(a, b) /\ Before(b, c)
         /\ Before(d, e) /\ Before(e, f)
         /\ orient3d(a, b, c, Corner) # RZero
         /\ orient3d(d, e, f, Corner) # RZero
         /\ p = InsertAt(<<a, b, c>>, i, Corner)
         /\ q = InsertAt(<<d, e, f>>, j, Corner)

\* vertex i of the k-th sample simplex with n vertices: k = 1 the corner
\* simplex of side 2, k = 2 the same moved by (1, 1, 1), k = 3 a degenerate
\* one (coincident and collinear vertices) unless it is a tetrahedron
Vertex(k, n, i) ==
  LET corner == IF i = 1 THEN IPoint(0, 0, 0)
                ELSE IF i = 2 THEN IPoint(2, 0, 0)
                ELSE IF i = 3 THEN IPoint(0, 2, 0)
                ELSE IF i = 4 THEN IPoint(0, 0, 2)
                ELSE IPoint(i, i, i)
  IN  IF k = 1 THEN corner
      ELSE IF k = 2 THEN PAdd(corner, IPoint(1, 1, 1))
      ELSE IF n = 4 THEN PAdd(corner, IPoint(0, 1, 0))
      ELSE IPoint(i \div 2, 0, 0)

\* the coordinates a caller in dimension g fills in
Project(a, g) ==
  IF g = 1 THEN Point1(PX(a))
  ELSE IF g = 2 THEN Point2(PX(a), PY(a))
  ELSE a

Simplex(k, n, g) == [i \in 1..n |-> Project(Vertex(k, n, i), g)]

\* every pair of vertex counts 1..MaxVerts, every gdim 0..MaxGdim
InitDispatch ==
  /\ pc = "ready"
  /\ gdim \in 0..MaxGdim
  /\ tiny \in BOOLEAN
  /\ ret = NoResult
  /\ history = <<>>
  /\ \E n, m \in 1..MaxVerts :
       \E k, l \in 1..3 :
         /\ p = Simplex(k, n, gdim)
         /\ q = Simplex(l, m, gdim)

\* segments of space out of the origin against the segments of a box four
\* points long, so that two segments of a line can overlap in part; zero
\* length included
BoxPoints == {IPoint(x, y, z) : x \in 0..(Grid3 + 1), y \in 0..2, z \in 0..1}

InitSeg3D ==
  /\ pc = "ready"
  /\ gdim = 3
  /\ tiny = FALSE
  /\ ret = NoResult
  /\ history = <<>>
  /\ \E a, b, c \in BoxPoints :
       /\ p = <<IPoint(0, 0, 0), a>>
       /\ q = <<b, c>>

\* the corner tetrahedron of side 4 against the segments of the grid, zero
\* length included
InitTetSeg ==
  /\ pc = "ready"
  /\ gdim = 3
  /\ tiny = FALSE
  /\ ret = NoResult
  /\ history = <<>>
  /\ p = <<IPoint(0, 0, 0), IPoint(4, 0, 0), IPoint(0, 4, 0), IPoint(0, 0, 4)>>
  /\ \E a, b \in GridPoints3 : q = <<a, b>>

\* intersection_tetrahedron_segment_3d(p0, p1, p2, p3, q0, q1), called directly
CallTetrahedronSegment ==
  /\ pc = "ready"
  /\ ret' = [error |-> FALSE,
             callee |-> Call("intersection_tetrahedron_segment_3d", p \o q),
             points |-> intersection_tetrahedron_segment_3d(p[1], p[2], p[3], p[4],
                                                            q[1], q[2])]
  /\ pc' = "done"
  /\ UNCHANGED <<p, q, gdim, tiny, history>>

\* the lists of at most MaxList points over three values
ListPoints == {IPoint(0, 0, 0), IPoint(1, 0, 0), IPoint(0, 1, 0)}

InitList ==
  /\ pc = "ready"
  /\ gdim = 3
  /\ tiny = FALSE
  /\ ret = NoResult
  /\ history = <<>>
  /\ q = <<>>
  /\ \E n \in 0..MaxList : p \in [1..n -> ListPoints]

\* _unique_points(p)
CallUniquePoints ==
  /\ pc = "ready"
  /\ ret' = [error |-> FALSE,
             callee |-> Call("_unique_points", <<p>>),
             points |-> unique_points(p)]
  /\ pc' = "done"
  /\ UNCHANGED <<p, q, gdim, tiny, history>>

\* a mutant of LocalPoints: the list is static and keeps what the call
\* before has left in it
LocalPoints_static(done) ==
  IF done = <<>> THEN <<>> ELSE done[Len(done)].ret.points

\* std::vector<Point> points; the list of a call starts empty, whatever calls
\* have been made before
LocalPoints(done) == <<>>

\* intersection(p, q, gdim), the call recorded with its arguments at entry
CallIntersection ==
  /\ pc = "ready"
  /\ ret' = [intersection(p, q, gdim) EXCEPT !.points = LocalPoints(history) \o @]
  /\ history' = Append(history, [p |-> p, q |-> q, gdim |-> gdim, ret |-> ret'])
  /\ pc' = "done"
  /\ UNCHANGED <<p, q, gdim, tiny>>

\* MeshGeometry: the geometric dimension and the coordinates of the vertices,
\* point(i) being a Point whose coordinates beyond the dimension are 0
Interval ==
  [name |-> "interval", gdim |-> 1, tdim |-> 1,
   points |-> <<IPoint(0, 0, 0), IPoint(1, 0, 0), IPoint(2, 0, 0)>>]

SquareA ==
  [name |-> "square A", gdim |-> 2, tdim |-> 2,
   points |-> <<IPoint(0, 0, 0), IPoint(1, 0, 0), IPoint(0, 1, 0),
                IPoint(1, 1, 0)>>]

SquareB ==
  [name |-> "square B", gdim |-> 2, tdim |-> 2,
   points |-> <<IPoint(1, 1, 0), IPoint(2, 1, 0), IPoint(1, 2, 0),
                IPoint(0, 0, 0)>>]

Corner3 ==
  [name |-> "corner", gdim |-> 3, tdim |-> 3,
   points |-> <<IPoint(0, 0, 0), IPoint(1, 0, 0), IPoint(0, 1, 0),
                IPoint(0, 0, 1)>>]

Meshes == {Interval, SquareA, SquareB, Corner3}

\* the vertex lists of the entities of dimension d of a mesh of n vertices,
\* in any order
VertexLists(n, d) ==
  {s \in [1..(d + 1) -> 1..n] : \A i, j \in 1..(d + 1) : i # j => s[i] # s[j]}

\* MeshEntity: its mesh, its dimension and entities(0), its vertex indices
MeshEntities ==
  UNION {UNION {{[mesh |-> m, dim |-> d, vertices |-> s] :
                   s \in VertexLists(Len(m.points), d)} : d \in 0..m.tdim} :
           m \in Meshes}

\* two entities, of one mesh or of two
InitEntities ==
  /\ pc = "ready"
  /\ gdim = 0
  /\ tiny = FALSE
  /\ ret = NoResult
  /\ history = <<>>
  /\ p \in MeshEntities
  /\ q \in MeshEntities

\* points_k[i] = g.point(v[i]), i = 0..dim
PackPoints(g, entity) ==
  [i \in 1..(entity.dim + 1) |-> g.points[entity.vertices[i]]]

\* a mutant of GeometricDimension: the dimension of the second geometry
GeometricDimension_second(g0, g1) == g1.gdim

\* only the first entity is looked at
GeometricDimension(g0, g1) == g0.gdim

\* intersection(entity_0, entity_1), entity_0 held in p and entity_1 in q;
\* the call of the common implementation is recorded
CallEntityIntersection ==
  /\ pc = "ready"
  /\ LET g0 == p.mesh
         g1 == q.mesh
         points_0 == PackPoints(g0, p)
         points_1 == PackPoints(g1, q)
         g == GeometricDimension(g0, g1)
     IN  /\ ret' = intersection(points_0, points_1, g)
         /\ history' = Append(history, [p |-> points_0, q |-> points_1,
                                        gdim |-> g, ret |-> ret'])
  /\ pc' = "done"
  /\ UNCHANGED <<p, q, gdim, tiny>>

\* the point intersector for a simplex of n vertices in dimension g
PointIntersector(n, g) ==
  CASE n = 1 /\ g = 1 -> "intersection_point_point_1d"
    [] n = 1 /\ g = 2 -> "intersection_point_point_2d"
    [] n = 1 /\ g = 3 -> "intersection_point_point_3d"
    [] n = 2 /\ g = 1 -> "intersection_segment_point_1d"
    [] n = 2 /\ g = 2 -> "intersection_segment_point_2d"
    [] n = 2 /\ g = 3 -> "intersection_segment_point_3d"
    [] n = 3 /\ g = 2 -> "intersection_triangle_point_2d"
    [] n = 3 /\ g = 3 -> "intersection_triangle_point_3d"
    [] n = 4 /\ g = 3 -> "intersection_tetrahedron_point_3d"

\* the arguments: coordinates on the line, Points otherwise
PointArguments(pp, qq, g) ==
  IF g = 1 THEN [i \in 1..Len(pp) |-> PX(pp[i])] \o <<PX(qq[1])>>
  ELSE pp \o qq

\* the result of a point intersector, the doubles of the line as Points
ApplyPoint(c) ==
  LET a == c.args
  IN  CASE c.fn = "intersection_point_point_1d" ->
             WrapPoints(intersection_point_point_1d(a[1], a[2]))
        [] c.fn = "intersection_point_point_2d" ->
             intersection_point_point_2d(a[1], a[2])
        [] c.fn = "intersection_point_point_3d" ->
             intersection_point_point_3d(a[1], a[2])
        [] c.fn = "intersection_segment_point_1d" ->
             WrapPoints(intersection_segment_point_1d(a[1], a[2], a[3]))
        [] c.fn = "intersection_segment_point_2d" ->
             intersection_segment_point_2d(a[1], a[2], a[3])
        [] c.fn = "intersection_segment_point_3d" ->
             intersection_segment_point_3d(a[1], a[2], a[3])
        [] c.fn = "intersection_triangle_point_2d" ->
             intersection_triangle_point_2d(a[1], a[2], a[3], a[4])
        [] c.fn = "intersection_triangle_point_3d" ->
             intersection_triangle_point_3d(a[1], a[2], a[3], a[4])
        [] c.fn = "intersection_tetrahedron_point_3d" ->
             intersection_tetrahedron_point_3d(a[1], a[2], a[3], a[4], a[5])

\* a simplex of n vertices out of the corner simplex of side 2, its last
\* vertex a; a single point keeps all its coordinates in any dimension
SampleSimplex(n, a, g) ==
  IF n = 1 THEN <<a>>
  ELSE [i \in 1..n |-> Project(IF i = n THEN a ELSE Vertex(1, n, i), g)]

\* a point, segment, triangle or tetrahedron (not flat) against a point
InitPoints ==
  /\ pc = "ready"
  /\ gdim \in 1..3
  /\ tiny = FALSE
  /\ ret = NoResult
  /\ history = <<>>
  /\ \E n \in 1..(gdim + 1) :
       \E a, b \in GridPoints3 :
         /\ n = 4 => PZ(a) # RZero
         /\ p = SampleSimplex(n, a, gdim)
         /\ q = <<IF n = 1 THEN b ELSE Project(b, gdim)>>

\* the point intersector of the simplex p and the point q[1]
CallPointIntersector ==
  /\ pc = "ready"
  /\ LET c == Call(PointIntersector(Len(p), gdim), PointArguments(p, q, gdim))
     IN  ret' = [error |-> FALSE, callee |-> c, points |-> ApplyPoint(c)]
  /\ pc' = "done"
  /\ UNCHANGED <<p, q, gdim, tiny, history>>

\* the segment (0,0)-(1,1) against the segments out of (0,0) or (0,1) that
\* end on the unit square
CallSamples ==
  {<<a, b>> : a \in {IPoint(0, 0, 0), IPoint(0, 1, 0)},
              b \in {IPoint(x, y, 0) : x, y \in 0..1}}

InitCalls ==
  /\ pc = "ready"
  /\ gdim = 2
  /\ tiny = FALSE
  /\ ret = NoResult
  /\ history = <<>>
  /\ p = <<IPoint(0, 0, 0), IPoint(1, 1, 0)>>
  /\ q \in CallSamples

\* the caller goes on to another call, with the same or another segment
NextCall ==
  /\ pc = "done"
  /\ Len(history) < MaxCalls
  /\ q' \in CallSamples
  /\ pc' = "ready"
  /\ ret' = NoResult
  /\ UNCHANGED <<p, gdim, tiny, history>>

Next == CallIntersection

Spec == InitDispatch /\ [][Next]_vars

Spec1D == Init1D /\ [][Next]_vars

Spec3D == Init3D /\ [][Next]_vars

Spec2D == Init2D /\ [][Next]_vars

SpecTriSeg3D == InitTriSeg3D /\ [][Next]_vars

SpecTetTet == InitTetTet /\ [][Next]_vars

SpecSeg3D == InitSeg3D /\ [][Next]_vars

SpecSegments == InitSegments /\ [][Next]_vars

SpecTriSeg2D == InitTriSeg2D /\ [][Next]_vars

SpecEntities == InitEntities /\ [][CallEntityIntersection]_vars

SpecPoints == InitPoints /\ [][CallPointIntersector]_vars

SpecTetSeg == InitTetSeg /\ [][CallTetrahedronSegment]_vars

SpecList == InitList /\ [][CallUniquePoints]_vars

SpecCalls == InitCalls /\ [][CallIntersection \/ NextCall]_vars

Spec2DStrip == Init2DStrip /\ [][Next]_vars

----------------------------------------------------------------------------
(* Properties of the segment-segment intersectors *)

Done == pc = "done"

\* x lies on the closed segment (a, b), stated by the parameter of x
InClosedSegment(x, a, b) ==
  LET ab == PSub(b, a)
      ax == PSub(x, a)
  IN  /\ Cross(ab, ax) = <<RZero, RZero, RZero>>
      /\ RLe(RZero, Dot(ax, ab))
      /\ RLe(Dot(ax, ab), Dot(ab, ab))
      /\ (a = b => x = a)

Reversed(s) == [i \in 1..Len(s) |-> s[Len(s) + 1 - i]]

\* C3: the list returned by intersection(p, q, gdim) holds no two equal
\* points, zero-length segments included (here: segments of the line)
C3_DuplicateFree == Done => NoDuplicates(ret.points)

\* C4: a zero-length segment (p, p) against a segment (q0, q1) gives, as a
\* set, {p} when p lies on the closed segment (q0, q1) and nothing otherwise
C4_DegenerateSegment ==
  (Done /\ p[1] = p[2]) =>
    SetOf(ret.points) = IF InClosedSegment(p[1], q[1], q[2]) THEN {p[1]} ELSE {}

\* C5: every returned point lies in both closed input segments
C5_Containment ==
  Done => \A x \in SetOf(ret.points) :
            InClosedSegment(x, p[1], p[2]) /\ InClosedSegment(x, q[1], q[2])

\* C6: intersection(A, B, gdim) and intersection(B, A, gdim) are equal as sets
C6_Symmetry ==
  Done => SetOf(ret.points) = SetOf(intersection(q, p, gdim).points)

\* C7: reversing the vertex order of either segment leaves the result
\* unchanged as a set
C7_VertexOrder ==
  Done => /\ SetOf(ret.points) = SetOf(intersection(Reversed(p), q, gdim).points)
          /\ SetOf(ret.points) = SetOf(intersection(p, Reversed(q), gdim).points)

\* both orientation products of two segments of the plane are negative
MainCase(p0, p1, q0, q1) ==
  /\ RSgn(RMul(orient2d(q0, q1, p0), orient2d(q0, q1, p1))) < 0
  /\ RSgn(RMul(orient2d(p0, p1, q0), orient2d(p0, p1, q1))) < 0

\* (b - a) x (d - c) in the plane
Cross2(a, b, c, d) ==
  RSub(RMul(RSub(PX(b), PX(a)), RSub(PY(d), PY(c))),
       RMul(RSub(PY(b), PY(a)), RSub(PX(d), PX(c))))

\* a0 + (orient2d(b0, b1, a0) / ((a1 - a0) x (b1 - b0))) * (a1 - a0)
FormulaPoint(a0, a1, b0, b1) ==
  PAdd(a0, PScale(RDiv(orient2d(b0, b1, a0), Cross2(a0, a1, b0, b1)),
                  PSub(a1, a0)))

Half == Rat(1, 2)

CrossingExample ==
  /\ ~tiny
  /\ p = <<IPoint(0, 0, 0), IPoint(1, 1, 0)>>
  /\ q = <<IPoint(0, 1, 0), IPoint(1, 0, 0)>>

\* C9: two segments of the plane with both orientation products negative,
\* the stability guard not firing: the result is exactly one point, it lies
\* on both segments (whose lines are not parallel, so it is their only common
\* point), and it is the formula point under either parametrization base;
\* (0,0)-(1,1) and (0,1)-(1,0) give (0.5, 0.5)
C9_Crossing ==
  (/\ Done
   /\ MainCase(p[1], p[2], q[1], q[2])
   /\ ~StabilityGuard(MainDen(p[1], p[2], q[1], q[2]),
                      MainNum(p[1], p[2], q[1], q[2])))
  => /\ Len(ret.points) = 1
     /\ Cross2(p[1], p[2], q[1], q[2]) # RZero
     /\ InClosedSegment(ret.points[1], p[1], p[2])
     /\ InClosedSegment(ret.points[1], q[1], q[2])
     /\ ret.points[1] = FormulaPoint(p[1], p[2], q[1], q[2])
     /\ ret.points[1] = FormulaPoint(q[1], q[2], p[1], p[2])
     /\ (CrossingExample => ret.points = <<Point2(Half, Half)>>)

\* the crossing example has been computed
C9_Witness == Done /\ CrossingExample /\ ret.points = <<Point2(Half, Half)>>

\* the two boundary points of the overlap of [min p, max p] and [min q, max q]
OverlapEnds(p0, p1, q0, q1) ==
  LET lo == RMax(RMin(p0, p1), RMin(q0, q1))
      hi == RMin(RMax(p0, p1), RMax(q0, q1))
  IN  IF RLt(hi, lo) THEN {} ELSE {Point1(lo), Point1(hi)}

\* C10: two segments of the line of non-zero length, in either end point
\* order, give as a set the two ends of the overlap interval, the single
\* common point when they touch, and nothing when they are disjoint
C10_Overlap1d ==
  (Done /\ p[1] # p[2] /\ q[1] # q[2]) =>
    SetOf(ret.points) = OverlapEnds(PX(p[1]), PX(p[2]), PX(q[1]), PX(q[2]))

\* (0,2) and (1,3) have given {1, 2}
C10_Witness ==
  /\ Done
  /\ p = <<IPoint(0, 0, 0), IPoint(2, 0, 0)>>
  /\ q = <<IPoint(1, 0, 0), IPoint(3, 0, 0)>>
  /\ SetOf(ret.points) = {IPoint(1, 0, 0), IPoint(2, 0, 0)}

\* do the closed segments (a, b) and (c, d) of the plane share a point?  The
\* lines meet in FormulaPoint unless they are parallel, and parallel segments
\* that share a point share an end point
HaveCommonPoint(a, b, c, d) ==
  IF Cross2(a, b, c, d) # RZero
  THEN /\ InClosedSegment(FormulaPoint(a, b, c, d), a, b)
       /\ InClosedSegment(FormulaPoint(a, b, c, d), c, d)
  ELSE \/ \E e \in {a, b} : InClosedSegment(e, c, d)
       \/ \E e \in {c, d} : InClosedSegment(e, a, b)

NonZeroLength == p[1] # p[2] /\ q[1] # q[2]

ParallelExample ==
  /\ p = <<IPoint(0, 0, 0), IPoint(1, 0, 0)>>
  /\ q = <<IPoint(0, 1, 0), IPoint(1, 1, 0)>>

\* po > 0 or qo > 0 for the segments held in p and q
OneSided ==
  \/ RSgn(RMul(orient2d(q[1], q[2], p[1]), orient2d(q[1], q[2], p[2]))) > 0
  \/ RSgn(RMul(orient2d(p[1], p[2], q[1]), orient2d(p[1], p[2], q[2]))) > 0

\* C11: two segments of the plane of non-zero length give the empty list
\* whenever po > 0 or qo > 0, and whenever they have no common point;
\* (0,0)-(1,0) and (0,1)-(1,1) give nothing
C11_Disjoint2d ==
  (Done /\ NonZeroLength) =>
    /\ OneSided => ret.points = <<>>
    /\ ~HaveCommonPoint(p[1], p[2], q[1], q[2]) => ret.points = <<>>
    /\ ParallelExample => ret.points = <<>>

\* all four orientations are zero and the segments share no point
CollinearApart ==
  /\ orient2d(q[1], q[2], p[1]) = RZero
  /\ orient2d(q[1], q[2], p[2]) = RZero
  /\ orient2d(p[1], p[2], q[1]) = RZero
  /\ orient2d(p[1], p[2], q[2]) = RZero
  /\ ~HaveCommonPoint(p[1], p[2], q[1], q[2])

\* collinear segments with disjoint projections have given nothing
C11_Witness == Done /\ NonZeroLength /\ CollinearApart /\ ret.points = <<>>

\* |p1 - p0|^2 <= |q1 - q0|^2: the first segment is not the longer one
FirstNotLonger(p0, p1, q0, q1) ==
  RLe(squared_distance(p0, p1), squared_distance(q0, q1))

\* C16: in the main case the base is the first segment if |p1-p0|^2 <=
\* |q1-q0|^2, with num = p0o and den = (p1-p0) x (q1-q0), and the second
\* segment only if |p1-p0|^2 > |q1-q0|^2, with num = q0o and den =
\* (q1-q0) x (p1-p0)
C16_BaseChoice ==
  (Done /\ MainCase(p[1], p[2], q[1], q[2])) =>
    IF FirstNotLonger(p[1], p[2], q[1], q[2])
    THEN /\ BaseIsP(p[1], p[2], q[1], q[2])
         /\ MainNum(p[1], p[2], q[1], q[2]) = orient2d(q[1], q[2], p[1])
         /\ MainDen(p[1], p[2], q[1], q[2]) = Cross2(p[1], p[2], q[1], q[2])
    ELSE /\ ~BaseIsP(p[1], p[2], q[1], q[2])
         /\ MainNum(p[1], p[2], q[1], q[2]) = orient2d(p[1], p[2], q[1])
         /\ MainDen(p[1], p[2], q[1], q[2]) = Cross2(q[1], q[2], p[1], p[2])

\* the midpoints of the 2nd and 3rd of the points of s in an order of
\* non-decreasing coordinate along axis (one for each such order)
MiddleMidpoints(s, axis) ==
  LET Orders == {f \in [1..4 -> 1..4] :
                   /\ \A i, j \in 1..4 : i # j => f[i] # f[j]
                   /\ \A i \in 1..3 : RLe(Coord(s[f[i]], axis), Coord(s[f[i + 1]], axis))}
  IN  {PScale(Half, PAdd(s[f[2]], s[f[3]])) : f \in Orders}

\* the guard of the main case fires for the segments held in p and q
GuardFires ==
  StabilityGuard(MainDen(p[1], p[2], q[1], q[2]), MainNum(p[1], p[2], q[1], q[2]))

\* C17: in the main case, when den^2 < DOLFIN_EPS_LARGE*|num| the result is
\* one point, the midpoint of the 2nd and 3rd of {p0, p1, q0, q1} sorted along
\* the major axis of p1 - p0, whichever segment is the base; otherwise it is
\* the formula point
C17_Fallback ==
  (Done /\ MainCase(p[1], p[2], q[1], q[2])) =>
    /\ Len(ret.points) = 1
    /\ GuardFires =>
         ret.points[1] \in MiddleMidpoints(<<p[1], p[2], q[1], q[2]>>,
                                           major_axis_2d(PSub(p[2], p[1])))
    /\ ~GuardFires => ret.points[1] = FormulaPoint(p[1], p[2], q[1], q[2])

\* the guard has fired with the second segment as base, and the end points
\* were sorted along x, the major axis of the first
C17_Witness ==
  /\ Done
  /\ tiny
  /\ p = <<IPoint(0, 2, 0), IPoint(2, 1, 0)>>
  /\ q = <<IPoint(0, 0, 0), IPoint(1, 2, 0)>>
  /\ ~BaseIsP(p[1], p[2], q[1], q[2])
  /\ GuardFires
  /\ ret.points = <<Point2(Half, RInt(1))>>

----------------------------------------------------------------------------
(* Properties of the dispatch *)

SupportedTriples ==
  {<<1, 1, 1>>, <<1, 1, 2>>, <<1, 1, 3>>, <<1, 2, 2>>, <<1, 2, 3>>, <<2, 1, 2>>,
   <<2, 1, 3>>, <<2, 2, 2>>, <<2, 2, 3>>, <<2, 3, 3>>, <<3, 2, 3>>, <<3, 3, 3>>}

Triple == <<Len(p) - 1, Len(q) - 1, gdim>>

\* C1: for every (d0, d1, gdim) outside the supported set the call ends in
\* dolfin_error and gives back no list: it never returns an empty list
C1_UnsupportedIsFatal ==
  (Done /\ Triple \notin SupportedTriples) =>
    /\ ret.error
    /\ ret.callee = Call("dolfin_error", Triple)
    /\ ret.points = <<>>

\* triangle/triangle with gdim 1 has ended in dolfin_error
C1_Witness == Done /\ Triple = <<2, 2, 1>> /\ ret.error

\* the name of the intersector for simplices of hi + 1 >= lo + 1 vertices
IntersectorName(hi, lo, g) ==
  CASE hi = 1 /\ lo = 1 /\ g = 1 -> "intersection_segment_segment_1d"
    [] hi = 1 /\ lo = 1 /\ g = 2 -> "intersection_segment_segment_2d"
    [] hi = 1 /\ lo = 1 /\ g = 3 -> "intersection_segment_segment_3d"
    [] hi = 2 /\ lo = 1 /\ g = 2 -> "intersection_triangle_segment_2d"
    [] hi = 2 /\ lo = 1 /\ g = 3 -> "intersection_triangle_segment_3d"
    [] hi = 2 /\ lo = 2 /\ g = 2 -> "intersection_triangle_triangle_2d"
    [] hi = 2 /\ lo = 2 /\ g = 3 -> "intersection_triangle_triangle_3d"
    [] hi = 3 /\ lo = 2 /\ g = 3 -> "intersection_tetrahedron_triangle_3d"
    [] hi = 3 /\ lo = 3 /\ g = 3 -> "intersection_tetrahedron_tetrahedron_3d"

\* the call the dispatch is to make: the simplex of higher dimension first,
\* the first argument first when the dimensions agree, scalars in 1D
ExpectedCall ==
  LET first == IF Len(p) >= Len(q) THEN p ELSE q
      second == IF Len(p) >= Len(q) THEN q ELSE p
      name == IntersectorName(Len(first) - 1, Len(second) - 1, gdim)
  IN  IF gdim = 1
      THEN Call(name, <<PX(p[1]), PX(p[2]), PX(q[1]), PX(q[2])>>)
      ELSE Call(name, first \o second)

\* C8: for each supported triple the dispatch makes exactly the one call
\* expected of it and returns that call's result, without dolfin_error
C8_Dispatch ==
  (Done /\ Triple \in SupportedTriples) =>
    /\ ~ret.error
    /\ ret.callee = ExpectedCall
    /\ ret.points = ApplyTop(ExpectedCall)

\* segment/triangle in 3D has been dispatched, the triangle first
C8_Witness ==
  /\ Done
  /\ Triple = <<1, 2, 3>>
  /\ ret.callee = Call("intersection_triangle_segment_3d", q \o p)
  /\ ~ret.error

----------------------------------------------------------------------------
(* Properties of the composite intersectors *)

\* where the segment (a, b) crosses the plane of (t0, t1, t2), its end points
\* strictly on opposite sides
PiercePoints(a, b, t0, t1, t2) ==
  LET oa == orient3d(t0, t1, t2, a)
      ob == orient3d(t0, t1, t2, b)
  IN  IF RSgn(RMul(oa, ob)) < 0
      THEN {PAdd(a, PScale(RDiv(oa, RSub(oa, ob)), PSub(b, a)))}
      ELSE {}

Edges(t) == {<<t[1], t[2]>>, <<t[1], t[3]>>, <<t[2], t[3]>>}

\* vertices and edge-plane crossings of two triangles that lie in both
CommonPoints(s, t) ==
  LET cand == SetOf(s) \cup SetOf(t)
              \cup UNION {PiercePoints(e[1], e[2], t[1], t[2], t[3]) : e \in Edges(s)}
              \cup UNION {PiercePoints(e[1], e[2], s[1], s[2], s[3]) : e \in Edges(t)}
  IN  {x \in cand : /\ collides_triangle_point_3d(s[1], s[2], s[3], x)
                    /\ collides_triangle_point_3d(t[1], t[2], t[3], x)}

\* C2: the result is empty only when the two closed simplices have no common
\* point (here: two triangles in 3D)
C2_EmptyOnlyIfDisjoint ==
  (Done /\ CommonPoints(p, q) # {}) => ret.points # <<>>

\* x + y + z
CoordSum(a) == RAdd(RAdd(PX(a), PY(a)), PZ(a))

\* s and t are tetrahedra of non-zero volume with the vertex v in common,
\* and the plane x + y + z = const through v has the rest of s strictly on
\* one side and the rest of t strictly on the other: v is their only common
\* point
TouchAtVertex(s, t, v) ==
  /\ Len(s) = 4 /\ Len(t) = 4
  /\ orient3d(s[1], s[2], s[3], s[4]) # RZero
  /\ orient3d(t[1], t[2], t[3], t[4]) # RZero
  /\ v \in SetOf(s) \cap SetOf(t)
  /\ \A x \in SetOf(s) \ {v} : RLt(CoordSum(v), CoordSum(x))
  /\ \A x \in SetOf(t) \ {v} : RLt(CoordSum(x), CoordSum(v))

\* C12: two tetrahedra of non-zero volume whose only common point is a
\* shared vertex v give exactly the list [v]
C12_SharedVertex ==
  Done => \A v \in SetOf(p) : TouchAtVertex(p, q, v) => ret.points = <<v>>

\* two tetrahedra touching at Corner have given [Corner]
C12_Witness ==
  /\ Done
  /\ TouchAtVertex(p, q, Corner)
  /\ ret.callee.fn = "intersection_tetrahedron_tetrahedron_3d"
  /\ ret.points = <<Corner>>

\* x = q0 + (n.(p0 - q0))/(n.(q1 - q0))*(q1 - q0), n the normal of (p0, p1, p2)
PlanePoint(p0, p1, p2, q0, q1) ==
  LET n == Cross(PSub(p1, p0), PSub(p2, p0))
      num == Dot(n, PSub(p0, q0))
      den == Dot(n, PSub(q1, q0))
  IN  PAdd(q0, PScale(RDiv(num, den), PSub(q1, q0)))

\* what a triangle (p0, p1, p2) and a segment (q0, q1) of space are to give,
\* as a set, by the sign of qo
TriangleSegmentPoints(p0, p1, p2, q0, q1) ==
  LET q0o == orient3d(p0, p1, p2, q0)
      q1o == orient3d(p0, p1, p2, q1)
      qo == RSgn(RMul(q0o, q1o))
      x == PlanePoint(p0, p1, p2, q0, q1)
  IN  IF qo > 0 THEN {}
      ELSE IF qo = 0
      THEN {e \in {q0, q1} : /\ orient3d(p0, p1, p2, e) = RZero
                             /\ collides_triangle_point_3d(p0, p1, p2, e)}
      ELSE IF collides_triangle_point_3d(p0, p1, p2, x) THEN {x} ELSE {}

\* the dispatch has called intersection_triangle_segment_3d(p, q)
TriangleSegment3dCalled ==
  /\ Done
  /\ ret.callee = Call("intersection_triangle_segment_3d", p \o q)

\* C13: intersection_triangle_segment_3d gives nothing for qo > 0, the
\* coplanar end points inside the triangle for qo == 0, and for qo < 0 the
\* point where the segment meets the plane when it lies in the triangle: a
\* segment piercing the interior gives one point
C13_TriangleSegment3d ==
  TriangleSegment3dCalled =>
    SetOf(ret.points) = TriangleSegmentPoints(p[1], p[2], p[3], q[1], q[2])

\* the sub-simplices of k vertices of the simplex with vertex set S
SubSimplices(S, k) == {T \in SUBSET S : Cardinality(T) = k}

\* a call as the pair of sub-simplices it is made for: the first n arguments
\* of a call with n + m arguments, and the other m
PairOf(c, m) ==
  LET n == Len(c.args) - m
  IN  <<c.fn, {c.args[i] : i \in 1..n}, {c.args[i] : i \in (n + 1)..Len(c.args)}>>

\* m for the intersectors the composites call: 1 for a point test, 2 for a
\* segment as second sub-simplex
SecondSize(fn) ==
  IF fn \in {"intersection_triangle_point_2d", "intersection_triangle_point_3d",
             "intersection_tetrahedron_point_3d"}
  THEN 1 ELSE 2

\* the name of the point test of a simplex with n vertices
PointTest(n, g) ==
  IF n = 4 THEN "intersection_tetrahedron_point_3d"
  ELSE IF g = 2 THEN "intersection_triangle_point_2d"
  ELSE "intersection_triangle_point_3d"

\* the pairs simplices with vertex sets P and Q are to be tested for: every
\* vertex of one against the other, and in 2D every edge against every edge,
\* in 3D every face (triangle) of one against every edge of the other
ExpectedPairs(P, Q, g) ==
  {<<PointTest(Cardinality(P), g), P, {v}>> : v \in Q}
  \cup {<<PointTest(Cardinality(Q), g), Q, {v}>> : v \in P}
  \cup (IF g = 2
        THEN {<<"intersection_segment_segment_2d", E, F>> :
                E \in SubSimplices(P, 2), F \in SubSimplices(Q, 2)}
        ELSE {<<"intersection_triangle_segment_3d", F, E>> :
                F \in SubSimplices(P, 3), E \in SubSimplices(Q, 2)}
             \cup {<<"intersection_triangle_segment_3d", F, E>> :
                     F \in SubSimplices(Q, 3), E \in SubSimplices(P, 2)})

\* the call list of the composite intersector called with arguments a
CallList(fn, a) ==
  CASE fn = "intersection_triangle_triangle_2d" ->
         Calls_triangle_triangle_2d(a[1], a[2], a[3], a[4], a[5], a[6])
    [] fn = "intersection_triangle_triangle_3d" ->
         Calls_triangle_triangle_3d(a[1], a[2], a[3], a[4], a[5], a[6])
    [] fn = "intersection_tetrahedron_triangle_3d" ->
         Calls_tetrahedron_triangle_3d(a[1], a[2], a[3], a[4], a[5], a[6], a[7])
    [] fn = "intersection_tetrahedron_tetrahedron_3d" ->
         Calls_tetrahedron_tetrahedron_3d(a[1], a[2], a[3], a[4],
                                          a[5], a[6], a[7], a[8])

ListedComposites ==
  {"intersection_triangle_triangle_2d", "intersection_triangle_triangle_3d",
   "intersection_tetrahedron_triangle_3d",
   "intersection_tetrahedron_tetrahedron_3d"}

\* one of the four composites has been called for simplices whose vertices
\* are all different
ListedCompositeCalled ==
  /\ Done
  /\ ret.callee.fn \in ListedComposites
  /\ Cardinality(SetOf(p) \cup SetOf(q)) = Len(p) + Len(q)

\* the pairs of the calls made, in the order of the calls
PairsCalled ==
  LET list == CallList(ret.callee.fn, ret.callee.args)
  IN  [i \in 1..Len(list) |-> PairOf(list[i], SecondSize(list[i].fn))]

\* C19: the calls of a composite intersector are made for exactly the vertex
\* tests and edge/edge or face/edge pairs of its two simplices, each pair
\* once: 8 + 48 for two tetrahedra, 7 + 18 for tetrahedron and triangle,
\* 6 + 9 for two triangles in 2D, 6 + 6 in 3D
C19_CallLists ==
  ListedCompositeCalled =>
    /\ SetOf(PairsCalled) = ExpectedPairs(SetOf(p), SetOf(q), gdim)
    /\ NoDuplicates(PairsCalled)
    /\ Len(PairsCalled) =
         CASE ret.callee.fn = "intersection_tetrahedron_tetrahedron_3d" -> 56
           [] ret.callee.fn = "intersection_tetrahedron_triangle_3d" -> 25
           [] ret.callee.fn = "intersection_triangle_triangle_2d" -> 15
           [] ret.callee.fn = "intersection_triangle_triangle_3d" -> 12

\* two tetrahedra of different vertices have been intersected by 56 calls
C19_Witness ==
  /\ ListedCompositeCalled
  /\ ret.callee.fn = "intersection_tetrahedron_tetrahedron_3d"
  /\ Len(PairsCalled) = 56
  /\ Cardinality(ExpectedPairs(SetOf(p), SetOf(q), gdim)) = 56

\* C20: intersection_segment_segment_3d gives the empty list when
\* collides_segment_segment_3d is false and a non-empty list when it is true
C20_AgreesWithPredicate ==
  (Done /\ ret.callee.fn = "intersection_segment_segment_3d") =>
    (ret.points = <<>>) = ~collides_segment_segment_3d(p[1], p[2], q[1], q[2])

\* segments of space crossing away from their end points have given the
\* crossing point
C20_Witness ==
  /\ Done
  /\ p = <<IPoint(0, 0, 0), IPoint(2, 0, 1)>>
  /\ q = <<IPoint(2, 0, 0), IPoint(0, 0, 1)>>
  /\ collides_segment_segment_3d(p[1], p[2], q[1], q[2])
  /\ ret.points = <<Point3(RInt(1), RZero, Half)>>

\* intersection_segment_segment_3d has been called for colliding segments of
\* non-zero length
CollidingSegments3d ==
  /\ Done
  /\ ret.callee.fn = "intersection_segment_segment_3d"
  /\ NonZeroLength
  /\ collides_segment_segment_3d(p[1], p[2], q[1], q[2])

\* the number of end points the four tests have collected
Collected3d == Len(EndPointCollisions3d(p[1], p[2], q[1], q[2]))

\* C21: for colliding segments of non-zero length, 2 collected end points
\* leave 1 or 2 points after deduplication and 3 or 4 leave exactly 2; the
\* end point phase never returns more than 2 points
C21_EndPointAssertion ==
  CollidingSegments3d =>
    /\ Collected3d = 2 => Len(ret.points) \in {1, 2}
    /\ Collected3d > 2 => Len(ret.points) = 2
    /\ Collected3d > 0 => Len(ret.points) <= 2 /\ NoDuplicates(ret.points)

\* a segment against itself reversed: four end points collected, two returned
C21_Witness ==
  /\ CollidingSegments3d
  /\ q = Reversed(p)
  /\ Collected3d = 4
  /\ Len(ret.points) = 2

\* den = |w x v|^2 for the segments held in p and q
Den3d ==
  squared_norm(Cross(PSub(p[1], p[2]), PSub(q[1], q[2])))

\* p1 + (num / den) (p0 - p1), num = (w x v) . (v x (p1 - q1))
PlainForm ==
  LET wv == Cross(PSub(p[1], p[2]), PSub(q[1], q[2]))
      num == Dot(wv, Cross(PSub(q[1], q[2]), PSub(p[2], q[2])))
  IN  PAdd(p[2], PScale(RDiv(num, Den3d), PSub(p[1], p[2])))

\* p0 + (num_swapped / den) (p1 - p0), num_swapped = -(w x v) . (v x (p0 - q1))
SwappedForm ==
  LET wv == Cross(PSub(p[1], p[2]), PSub(q[1], q[2]))
      num == RSub(RZero, Dot(wv, Cross(PSub(q[1], q[2]), PSub(p[1], q[2]))))
  IN  PAdd(p[1], PScale(RDiv(num, Den3d), PSub(p[2], p[1])))

\* the segments collide away from their end points and are not parallel
CrossingSegments3d ==
  /\ CollidingSegments3d
  /\ Collected3d = 0
  /\ Den3d # RZero

\* C22: colliding segments of space with no end point on the other segment
\* and den # 0 give exactly one point; it is the plain form and the swapped
\* form alike, and it lies on both segments, whose lines are not parallel
C22_ShewchukPoint ==
  CrossingSegments3d =>
    /\ ret.points = <<PlainForm>>
    /\ SwappedForm = PlainForm
    /\ collides_segment_point_3d(p[1], p[2], PlainForm)
    /\ collides_segment_point_3d(q[1], q[2], PlainForm)

\* a crossing a third of the way along the first segment, where the two
\* bases of the parametrization differ
C22_Witness ==
  /\ CrossingSegments3d
  /\ p = <<IPoint(0, 0, 0), IPoint(3, 0, 1)>>
  /\ q = <<IPoint(1, 0, 0), IPoint(1, 0, 1)>>
  /\ ret.points = <<Point3(RInt(1), RZero, Rat(1, 3))>>

\* a segment-segment intersector of the line or of the plane has been called
SegmentSegmentCalled ==
  /\ Done
  /\ ret.callee.fn \in {"intersection_segment_segment_1d",
                        "intersection_segment_segment_2d"}

EndPoints == <<p[1], p[2], q[1], q[2]>>

\* the number of places of the list s that hold v
Occurrences(s, v) == Cardinality({i \in 1..Len(s) : s[i] = v})

\* C23: in the segment-segment intersectors of the line and of the plane no
\* value is returned more often than there are end points holding it (each
\* end point is appended at most once), an end point of one segment equal to
\* an end point of the other is returned exactly once, and two segments of
\* non-zero length give at most 2 points
C23_EndPointsOnce ==
  SegmentSegmentCalled =>
    /\ \A v \in SetOf(EndPoints) :
         /\ Occurrences(ret.points, v) <= Occurrences(EndPoints, v)
         /\ (v \in {p[1], p[2]} /\ v \in {q[1], q[2]}) =>
              Occurrences(ret.points, v) = 1
    /\ NonZeroLength => Len(ret.points) <= 2 /\ NoDuplicates(ret.points)

\* segments of the line sharing one end point, the other end of the second
\* inside the first: the shared end once and the inner end once
C23_Witness ==
  /\ SegmentSegmentCalled
  /\ gdim = 1
  /\ p = <<IPoint(0, 0, 0), IPoint(2, 0, 0)>>
  /\ q = <<IPoint(0, 0, 0), IPoint(1, 0, 0)>>
  /\ ret.points = <<IPoint(0, 0, 0), IPoint(1, 0, 0)>>

\* the main case of intersection_segment_segment_2d has been reached
MainCaseReached ==
  /\ Done
  /\ ret.callee.fn = "intersection_segment_segment_2d"
  /\ MainCase(p[1], p[2], q[1], q[2])

\* x lies strictly between 0 and 1
StrictlyInside(x) == RLt(RZero, x) /\ RLt(x, RInt(1))

\* C24: in the main case (po < 0 and qo < 0) the den the code divides by is
\* not zero and num / den lies strictly between 0 and 1; the same holds of
\* the den and num of either base of the parametrization
C24_NoDivisionByZero ==
  MainCaseReached =>
    /\ MainDen(p[1], p[2], q[1], q[2]) # RZero
    /\ StrictlyInside(RDiv(MainNum(p[1], p[2], q[1], q[2]),
                           MainDen(p[1], p[2], q[1], q[2])))
    /\ Cross2(p[1], p[2], q[1], q[2]) # RZero
    /\ Cross2(q[1], q[2], p[1], p[2]) # RZero
    /\ StrictlyInside(RDiv(orient2d(q[1], q[2], p[1]),
                           Cross2(p[1], p[2], q[1], q[2])))
    /\ StrictlyInside(RDiv(orient2d(p[1], p[2], q[1]),
                           Cross2(q[1], q[2], p[1], p[2])))

\* a crossing a third of the way along the shorter, first segment
C24_Witness ==
  /\ MainCaseReached
  /\ ~tiny
  /\ p = <<IPoint(0, 1, 0), IPoint(1, 0, 0)>>
  /\ q = <<IPoint(0, 0, 0), IPoint(1, 2, 0)>>
  /\ BaseIsP(p[1], p[2], q[1], q[2])
  /\ RDiv(MainNum(p[1], p[2], q[1], q[2]), MainDen(p[1], p[2], q[1], q[2]))
       = Rat(1, 3)
  /\ ret.points = <<Point3(Rat(1, 3), Rat(2, 3), RZero)>>

\* intersection_triangle_segment_2d has been called for the triangle p and
\* the segment q
TriangleSegment2dCalled ==
  /\ Done
  /\ ret.callee.fn = "intersection_triangle_segment_2d"

\* the points of the two containment tests and of the three edge intersections
TestedPoints ==
  SetOf(intersection_triangle_point_2d(p[1], p[2], p[3], q[1]))
    \cup SetOf(intersection_triangle_point_2d(p[1], p[2], p[3], q[2]))
    \cup UNION {SetOf(intersection_segment_segment_2d(e[1], e[2], q[1], q[2])) :
                  e \in {<<p[1], p[2]>>, <<p[1], p[3]>>, <<p[2], p[3]>>}}

\* the triangle p has an area and the segment q a length
NonDegenerate2d == orient2d(p[1], p[2], p[3]) # RZero /\ q[1] # q[2]

\* C25: intersection_triangle_segment_2d returns the points of the two
\* containment tests of the segment's end points and of the three edge
\* intersections and no others; every triangle vertex on the closed segment
\* is among them; a triangle with an area and a segment with a length give
\* at most 2 points, all different
C25_TriangleSegment2d ==
  TriangleSegment2dCalled =>
    /\ SetOf(ret.points) = TestedPoints
    /\ \A i \in 1..3 :
         InClosedSegment(p[i], q[1], q[2]) => p[i] \in SetOf(ret.points)
    /\ NonDegenerate2d => Len(ret.points) <= 2 /\ NoDuplicates(ret.points)

\* a segment that passes through the first vertex and ends on the opposite
\* edge: the vertex, which no containment test looks at, and the end point
C25_Witness ==
  /\ TriangleSegment2dCalled
  /\ ~tiny
  /\ p = <<IPoint(1, 1, 0), IPoint(2, 0, 0), IPoint(2, 2, 0)>>
  /\ q = <<IPoint(0, 1, 0), IPoint(2, 1, 0)>>
  /\ ret.points = <<IPoint(1, 1, 0), IPoint(2, 1, 0)>>

\* the coordinates of the vertices of an entity, in the entity's order, read
\* from the geometry of the entity's own mesh
VertexCoordinates(entity) ==
  [i \in 1..Len(entity.vertices) |-> entity.mesh.points[entity.vertices[i]]]

\* C26: intersection(entity_0, entity_1) makes one call of the common
\* implementation, with the dim + 1 vertex coordinates of each entity read
\* from its own mesh and the geometric dimension of entity_0's mesh, and
\* returns what that call returns
C26_EntityOverload ==
  Done =>
    /\ Len(history) = 1
    /\ Len(history[1].p) = p.dim + 1
    /\ Len(history[1].q) = q.dim + 1
    /\ history[1].p = VertexCoordinates(p)
    /\ history[1].q = VertexCoordinates(q)
    /\ history[1].gdim = p.mesh.gdim
    /\ ret = history[1].ret
    /\ ret = intersection(VertexCoordinates(p), VertexCoordinates(q),
                          p.mesh.gdim)

\* a triangle of a mesh of the plane against a triangle of a mesh of space:
\* the triangles are intersected in the plane
C26_Witness ==
  /\ Done
  /\ p = [mesh |-> SquareA, dim |-> 2, vertices |-> <<3, 1, 2>>]
  /\ q = [mesh |-> Corner3, dim |-> 2, vertices |-> <<4, 2, 3>>]
  /\ history[1].gdim = 2
  /\ ret.callee.fn = "intersection_triangle_triangle_2d"
  /\ ret.points # <<>>

\* the collision predicate of the simplex p and the point q[1]
PointCollides ==
  CASE ret.callee.fn = "intersection_segment_point_1d" ->
         collides_segment_point_1d(PX(p[1]), PX(p[2]), PX(q[1]))
    [] ret.callee.fn = "intersection_segment_point_2d" ->
         collides_segment_point_2d(p[1], p[2], q[1])
    [] ret.callee.fn = "intersection_segment_point_3d" ->
         collides_segment_point_3d(p[1], p[2], q[1])
    [] ret.callee.fn = "intersection_triangle_point_2d" ->
         collides_triangle_point_2d(p[1], p[2], p[3], q[1])
    [] ret.callee.fn = "intersection_triangle_point_3d" ->
         collides_triangle_point_3d(p[1], p[2], p[3], q[1])
    [] ret.callee.fn = "intersection_tetrahedron_point_3d" ->
         collides_tetrahedron_point_3d(p[1], p[2], p[3], p[4], q[1])
    [] OTHER -> FALSE

\* the first gdim coordinates of the points p[1] and q[1] are equal
CoordinatesEqual ==
  \A i \in 0..(gdim - 1) : Coord(p[1], i) = Coord(q[1], i)

\* the point a as the intersector of dimension gdim returns it
AsReturned(a) == IF gdim = 1 THEN Point1(PX(a)) ELSE a

\* C27: a point intersector returns at most one point: the tested point q0
\* exactly when the collision predicate of the simplex holds, and for two
\* points p0 exactly when their first gdim coordinates are equal, so that
\* two points of the plane that differ in z only give p0
C27_PointIntersectors ==
  Done =>
    /\ Len(ret.points) <= 1
    /\ Len(p) > 1 =>
         ret.points = IF PointCollides THEN <<AsReturned(q[1])>> ELSE <<>>
    /\ Len(p) = 1 =>
         ret.points = IF CoordinatesEqual THEN <<AsReturned(p[1])>> ELSE <<>>
    /\ (Len(p) = 1 /\ gdim = 2 /\ PX(p[1]) = PX(q[1]) /\ PY(p[1]) = PY(q[1])) =>
         ret.points = <<p[1]>>

\* two points of the plane that differ in z only
C27_Witness ==
  /\ Done
  /\ ret.callee.fn = "intersection_point_point_2d"
  /\ p = <<IPoint(1, 1, 0)>>
  /\ q = <<IPoint(1, 1, 2)>>
  /\ ret.points = <<IPoint(1, 1, 0)>>

CompositeIntersectors ==
  {"intersection_triangle_segment_2d", "intersection_tetrahedron_segment_3d",
   "intersection_triangle_triangle_2d", "intersection_triangle_triangle_3d",
   "intersection_tetrahedron_triangle_3d",
   "intersection_tetrahedron_tetrahedron_3d"}

\* C18: the list a composite intersector returns has no two equal points,
\* also for a zero-length segment inside the tetrahedron
C18_CompositeDeduplicated ==
  (Done /\ ret.callee.fn \in CompositeIntersectors) => NoDuplicates(ret.points)

----------------------------------------------------------------------------
(* Properties of _unique_points *)

\* r is s with some elements left out, the others in their order
IsSubsequence(r, s) ==
  \E f \in [1..Len(r) -> 1..Len(s)] :
    /\ \A i \in 1..Len(r) : r[i] = s[f[i]]
    /\ \A i, j \in 1..Len(r) : i < j => f[i] < f[j]

\* C14: _unique_points(input) is a subsequence of input in which every value
\* of input occurs exactly once; the empty input gives the empty output
C14_UniquePoints ==
  (Done /\ ret.callee.fn = "_unique_points") =>
    /\ IsSubsequence(ret.points, p)
    /\ NoDuplicates(ret.points)
    /\ SetOf(ret.points) = SetOf(p)
    /\ (p = <<>> => ret.points = <<>>)

\* a list with a value repeated has been reduced
C14_Witness ==
  /\ Done
  /\ ret.callee.fn = "_unique_points"
  /\ p = <<IPoint(1, 0, 0), IPoint(0, 0, 0), IPoint(1, 0, 0), IPoint(1, 0, 0)>>
  /\ ret.points = <<IPoint(0, 0, 0), IPoint(1, 0, 0)>>

\* the places of the list s after which their value does not occur again
LastPlaces(s) ==
  {i \in 1..Len(s) : \A j \in (i + 1)..Len(s) : s[j] # s[i]}

\* r holds the elements of s at its last places, in their order, and no more
KeepsLastOccurrences(r, s) ==
  /\ Len(r) = Cardinality(LastPlaces(s))
  /\ \A i \in LastPlaces(s) :
       r[Cardinality({j \in LastPlaces(s) : j <= i})] = s[i]

\* C28: _unique_points drops an element exactly when an equal element occurs
\* later in the input; applied to its own output it changes nothing; the
\* output is never longer than the input and is as long exactly when the
\* input has no duplicates
C28_KeepsLast ==
  (Done /\ ret.callee.fn = "_unique_points") =>
    /\ KeepsLastOccurrences(ret.points, p)
    /\ unique_points(ret.points) = ret.points
    /\ Len(ret.points) <= Len(p)
    /\ (Len(ret.points) = Len(p)) = NoDuplicates(p)

\* a value before and after another: the later occurrence is the one kept
C28_Witness ==
  /\ Done
  /\ ret.callee.fn = "_unique_points"
  /\ p = <<IPoint(1, 0, 0), IPoint(0, 1, 0), IPoint(1, 0, 0)>>
  /\ ret.points = <<IPoint(0, 1, 0), IPoint(1, 0, 0)>>
  /\ unique_points(ret.points) = ret.points

----------------------------------------------------------------------------
(* Properties of a sequence of calls *)

============================================================================
